---- MODULE Spec2Model ----
(***************************************************************************)
(* Model of the registrar of src/restructure_data.py: folder-name parsing, *)
(* range batching, gap-filling ledger, and the per-batch transactional     *)
(* registration against tblongoingdocno / tblongoingdocnorecords; and of    *)
(* the transfer of src/s3_transfer.py: key derivation, retried uploads,    *)
(* verification against the remote listing, the loop over the folders.     *)
(*                                                                         *)
(* Strings.  A Python string is modelled by the tuple of the tokens that   *)
(* str.split('_') gives for it, so "a_b" is <<"a", "b">>, "a b" is         *)
(* <<"a b">> and "" is <<"">>.  '_'.join(xs) is then the concatenation of  *)
(* the tuples (Join), and two strings are equal iff their tuples are.      *)
(* The module is ASCII only: the district token written in Devanagari in   *)
(* DISTRICT_MAP is transliterated ("Mumbai", "Jilha").                     *)
(***************************************************************************)
EXTENDS Integers, Sequences, FiniteSets, TLC

\* ------------------------------------------------------------------ bounds
\* BATCH_SIZE of the source is 2000 (BATCH_SIZE_REF); the registrar model
\* runs with a scaled-down value so that a whole range is enumerated.
BATCH_SIZE == 2
BATCH_SIZE_REF == 2000
\* Number of registrar runs (process starts) of one behaviour.
MaxRuns == 2
\* Largest range size the ledger builder is run on alone.
MaxRange == 3
\* Longest parsed_items list the range batcher is run on alone.
MaxListing == 3
\* Most tokens of a generated folder name parse_folder_name is run on alone.
MaxTokens == 6
\* Most entries of SOURCE_DIR the scan of main() is run on alone.
MaxScan == 3
\* Most entries under SOURCE_DIR of one run of the transfer.
MaxFolders == 2

\* --------------------------------------------------------------- constants
CHRDISTRICT_ENGLISH_CONST == <<"Mumbai District">>

ISARITA_REG == <<"iSarita", "2.0">>

DIST_RAW == <<"Mumbai", "Jilha">>
DIST_DISPLAY == <<"Mumbai Jilha">>

SRO1_RAW == <<"Joint", "S.R.", "Mumbai", "1", "(Mumbai", "City", "1", "(Fort))">>
SRO1_DISPLAY == <<"Joint S.R. Mumbai 1 (Mumbai City 1 (Fort))">>
SRO2_RAW == <<"Joint", "S.R.", "Mumbai", "2", "(Mumbai", "City", "2", "(Worli))">>
SRO2_DISPLAY == <<"Joint S.R. Mumbai 2 (Mumbai City 2 (Worli))">>
SRO3_RAW == <<"Joint", "S.R.", "Mumbai", "3", "(Joint", "Sub-Registrar", "Mumbai", "City", "3)">>
SRO3_DISPLAY == <<"Joint S.R. Mumbai 3 (Joint Sub-Registrar Mumbai City 3)">>

\* DISTRICT_MAP.get(d, d)
map_district(d) ==
    IF d = DIST_RAW THEN DIST_DISPLAY ELSE d

\* SRO_MAP.get(s, s)
map_sro(s) ==
    CASE s = SRO2_RAW -> SRO2_DISPLAY
      [] s = SRO1_RAW -> SRO1_DISPLAY
      [] s = SRO3_RAW -> SRO3_DISPLAY
      [] OTHER -> s

\* '_'.join(xs): the empty list joins to the empty string.
Join(xs) ==
    IF xs = <<>> THEN <<"">> ELSE xs

\* int(token) on the numerals the model's folder names use: decimal digits,
\* an optional sign, leading zeros allowed.  Any other token raises.
IntTable ==
    ("0" :> 0) @@ ("1" :> 1) @@ ("2" :> 2) @@ ("3" :> 3) @@ ("4" :> 4) @@
    ("5" :> 5) @@ ("6" :> 6) @@ ("7" :> 7) @@ ("01" :> 1) @@ ("04" :> 4) @@
    ("-5" :> -5) @@ ("2009" :> 2009) @@ ("2010" :> 2010)

int_raises(tok) ==
    tok \notin DOMAIN IntTable

int(tok) ==
    IntTable[tok]

\* str(n) for the integers above: canonical decimal, no leading zeros.
str(n) ==
    CHOOSE t \in DOMAIN IntTable :
        /\ IntTable[t] = n
        /\ t \notin {"01", "04"}

\* ------------------------------------------------------------------- parse
None == [none |-> TRUE]

\* Mutant: the marker's second token is left with the remaining parts.
Tail2_OneToken(parts) ==
    Tail(parts)

\* parts[2:]
Tail2(parts) ==
    SubSeq(parts, 3, Len(parts))

\* parse_folder_name(folder_name): folder_name is the token tuple of the name.
parse_folder_name(folder_name) ==
    LET parts == folder_name
        isarita == /\ Len(parts) > 2
                   /\ parts[1] = "iSarita"
                   /\ parts[2] = "2.0"
        reg_type == IF isarita THEN ISARITA_REG ELSE <<parts[1]>>
        remaining_parts == IF isarita THEN Tail2(parts) ELSE Tail(parts)
        n == Len(remaining_parts)
    IN  IF n < 4 THEN None
        ELSE IF int_raises(remaining_parts[n]) THEN None
        ELSE [ original_name |-> folder_name,
               reg_type |-> reg_type,
               dist |-> <<remaining_parts[1], remaining_parts[2]>>,
               sro |-> Join(SubSeq(remaining_parts, 3, n - 2)),
               year |-> remaining_parts[n - 1],
               doc_no |-> int(remaining_parts[n]) ]

\* ----------------------------------------------------------- range batcher
\* Mutant: the logical index taken from doc_no instead of doc_no - 1.
LogicalIndex_OffByOne(doc_no, B) ==
    doc_no \div B

\* logical = (doc_no - 1) // BATCH_SIZE  (floor division)
LogicalIndex(doc_no, B) ==
    (doc_no - 1) \div B

\* range_min = logical * BATCH_SIZE + 1
RangeMin(logical, B) ==
    logical * B + 1

\* range_max = (logical + 1) * BATCH_SIZE
RangeMax(logical, B) ==
    (logical + 1) * B

GroupKey(item) ==
    <<item.dist, item.sro, item.year>>

MapKey(item, B) ==
    <<GroupKey(item), LogicalIndex(item.doc_no, B)>>

\* Index of the first occurrence of x in the sequence s (0 when absent).
IndexOf(s, x) ==
    IF \E i \in 1..Len(s) : s[i] = x
    THEN CHOOSE i \in 1..Len(s) : s[i] = x /\ \A j \in 1..(i - 1) : s[j] # x
    ELSE 0

\* The distinct values of s in order of first occurrence (dict key order).
RECURSIVE FirstOccurrences(_)
FirstOccurrences(s) ==
    IF s = <<>> THEN <<>>
    ELSE LET init == FirstOccurrences(SubSeq(s, 1, Len(s) - 1))
             x == s[Len(s)]
         IN  IF IndexOf(init, x) # 0 THEN init ELSE Append(init, x)

\* groups.setdefault(key, []).append(item): keys in insertion order.
GroupKeys(parsed_items) ==
    FirstOccurrences([i \in 1..Len(parsed_items) |-> GroupKey(parsed_items[i])])

GroupList(parsed_items, key) ==
    SelectSeq(parsed_items, LAMBDA it : GroupKey(it) = key)

\* Mutant: the group list is left in listing order.
SortByDocNo_Unsorted(lst) ==
    lst

\* lst.sort(key=lambda x: x["doc_no"]): a stable sort, ties keep their order.
RECURSIVE SortByDocNo(_)
SortByDocNo(lst) ==
    IF lst = <<>> THEN <<>>
    ELSE LET init == SortByDocNo(SubSeq(lst, 1, Len(lst) - 1))
             x == lst[Len(lst)]
             k == Cardinality({i \in 1..Len(init) : init[i].doc_no <= x.doc_no})
         IN  SubSeq(init, 1, k) \o <<x>> \o SubSeq(init, k + 1, Len(init))

\* The order in which the two nested loops over groups and sorted lists
\* visit the items.
RECURSIVE VisitOrder(_, _)
VisitOrder(parsed_items, keys) ==
    IF keys = <<>> THEN <<>>
    ELSE SortByDocNo(GroupList(parsed_items, Head(keys)))
            \o VisitOrder(parsed_items, Tail(keys))

\* batch_map after the loops: position p holds the map_key that was given
\* local_batch_id p (first occurrence allocates local_batch_id + 1).
BatchMap(parsed_items, B) ==
    LET visit == VisitOrder(parsed_items, GroupKeys(parsed_items))
    IN  FirstOccurrences([i \in 1..Len(visit) |-> MapKey(visit[i], B)])

\* The body of the batching loop for one item: item['sub_dir_id'] =
\* batch_map[map_key] and the range boundaries of the item's logical index.
Annotate(item, batch_map, B) ==
    item @@ [ sub_dir_id |-> IndexOf(batch_map, MapKey(item, B)),
              range_min |-> RangeMin(LogicalIndex(item.doc_no, B), B),
              range_max |-> RangeMax(LogicalIndex(item.doc_no, B), B) ]

RECURSIVE AnnotateAll(_, _, _)
AnnotateAll(parsed_items, batch_map, B) ==
    IF parsed_items = <<>> THEN <<>>
    ELSE <<Annotate(Head(parsed_items), batch_map, B)>>
            \o AnnotateAll(Tail(parsed_items), batch_map, B)

\* parsed_items after the batching loop (the loop updates the items in place).
Assigned(parsed_items, B) ==
    AnnotateAll(parsed_items, BatchMap(parsed_items, B), B)

\* "Group items by batch", from the items still to visit and the batches
\* dict so far: batches[bid] is created with the meta of the first item of
\* the listing that has this bid; items[doc_no] = item overwrites an earlier
\* item with the same doc_no (order is the key order of the items dict).
RECURSIVE GroupByBatch(_, _)
GroupByBatch(items, acc) ==
    IF items = <<>> THEN acc
    ELSE LET item == Head(items)
             b == item.sub_dir_id
             created == IF b \in DOMAIN acc THEN acc
                        ELSE acc @@ (b :>
                               [ items |-> <<>>,
                                 order |-> <<>>,
                                 meta |-> [ dist |-> item.dist,
                                            sro |-> item.sro,
                                            year |-> item.year,
                                            range_min |-> item.range_min,
                                            range_max |-> item.range_max ] ])
         IN  GroupByBatch(Tail(items),
                 [created EXCEPT
                    ![b].items = (item.doc_no :> item) @@ @,
                    ![b].order = IF item.doc_no \in DOMAIN created[b].items
                                 THEN @ ELSE Append(@, item.doc_no)])

Batches(parsed_items, B) ==
    GroupByBatch(Assigned(parsed_items, B), <<>>)

\* The parse loop of main(): the items that parse, in listing order.
RECURSIVE ParsedItems(_)
ParsedItems(listing) ==
    IF listing = <<>> THEN <<>>
    ELSE LET meta == parse_folder_name(Head(listing))
         IN  IF meta # None THEN <<meta>> \o ParsedItems(Tail(listing))
             ELSE ParsedItems(Tail(listing))

\* ------------------------------------------------------------ ledger rows
\* Mutant: no special case for a present iSarita_2.0 document.
LedgerRow_NoSpecialCase(meta, items_map, doc_no) ==
    LET present == doc_no \in DOMAIN items_map
        item == items_map[doc_no]
    IN  [ chrdistrict |-> map_district(IF present THEN item.dist ELSE meta.dist),
          chrdistrictenglish |-> CHRDISTRICT_ENGLISH_CONST,
          chrregistrationtype |->
              IF present THEN item.reg_type ELSE <<"iSarita 2.0">>,
          chrsro |-> map_sro(IF present THEN item.sro ELSE meta.sro),
          intdocno |-> doc_no,
          chryear |-> IF present THEN item.year ELSE meta.year,
          intstartrange |-> meta.range_min,
          intendrange |-> meta.range_max,
          crawling_status |-> IF present THEN "Found" ELSE "Not Found",
          extraction_status |-> "Pending" ]

\* The row of the gap-filling loop for doc_no (before the duplicate check).
LedgerRow(meta, items_map, doc_no) ==
    LET present == doc_no \in DOMAIN items_map
        item == items_map[doc_no]
        isarita == present /\ item.reg_type = ISARITA_REG
        dist_val == IF present THEN item.dist ELSE meta.dist
        sro_val == IF present THEN item.sro ELSE meta.sro
        year_val == IF present THEN item.year ELSE meta.year
    IN  [ chrdistrict |-> map_district(dist_val),
          chrdistrictenglish |-> CHRDISTRICT_ENGLISH_CONST,
          chrregistrationtype |->
              IF present /\ ~isarita THEN item.reg_type ELSE <<"iSarita 2.0">>,
          chrsro |-> map_sro(sro_val),
          intdocno |-> doc_no,
          chryear |-> year_val,
          intstartrange |-> meta.range_min,
          intendrange |-> meta.range_max,
          crawling_status |->
              IF present /\ ~isarita THEN "Found" ELSE "Not Found",
          extraction_status |-> "Pending" ]

\* Mutant: range(range_min, range_max), the last number is left out.
BuildLedger_OffByOne(meta, items_map) ==
    [ i \in 1..(meta.range_max - meta.range_min) |->
        [ chrdistrict |-> map_district(meta.dist),
          chrdistrictenglish |-> CHRDISTRICT_ENGLISH_CONST,
          chrregistrationtype |-> <<"iSarita 2.0">>,
          chrsro |-> map_sro(meta.sro),
          intdocno |-> meta.range_min + i - 1,
          chryear |-> meta.year,
          intstartrange |-> meta.range_min,
          intendrange |-> meta.range_max,
          crawling_status |-> "Not Found",
          extraction_status |-> "Pending" ] ]

\* Mutant: rows only for the documents that are present, no gap filling.
BuildLedger_PresentOnly(meta, items_map) ==
    SelectSeq([ i \in 1..(meta.range_max - meta.range_min + 1) |->
                  [ chrdistrict |-> map_district(meta.dist),
                    chrdistrictenglish |-> CHRDISTRICT_ENGLISH_CONST,
                    chrregistrationtype |-> <<"iSarita 2.0">>,
                    chrsro |-> map_sro(meta.sro),
                    intdocno |-> meta.range_min + i - 1,
                    chryear |-> meta.year,
                    intstartrange |-> meta.range_min,
                    intendrange |-> meta.range_max,
                    crawling_status |-> "Not Found",
                    extraction_status |-> "Pending" ] ],
              LAMBDA r : r.intdocno \in DOMAIN items_map)

\* for doc_no in range(range_min, range_max + 1): the rows in loop order.
BuildLedger(meta, items_map) ==
    [ i \in 1..(meta.range_max - meta.range_min + 1) |->
        LedgerRow(meta, items_map, meta.range_min + i - 1) ]

\* --------------------------------------------------------------- database
\* Mutant: the lookup never finds a parent.
check_duplicate_ongoing_None(parents, chrdistrict, chrsro, intstartrange, intendrange, chryear) ==
    {}

\* Mutant: the WHERE clause leaves the range columns out.
check_duplicate_ongoing_NoRange(parents, chrdistrict, chrsro, intstartrange, intendrange, chryear) ==
    { p.intongoingid : p \in
        { q \in parents : /\ q.chrdistrict = chrdistrict
                          /\ q.chrsro = chrsro
                          /\ q.chryear = chryear } }

\* SELECT intongoingid FROM tblongoingdocno WHERE ... LIMIT 1: the ids the
\* query may return (any one matching row).
check_duplicate_ongoing(parents, chrdistrict, chrsro, intstartrange, intendrange, chryear) ==
    { p.intongoingid : p \in
        { q \in parents : /\ q.chrdistrict = chrdistrict
                          /\ q.chrsro = chrsro
                          /\ q.intstartrange = intstartrange
                          /\ q.intendrange = intendrange
                          /\ q.chryear = chryear } }

\* INSERT INTO tblongoingdocno ... RETURNING intongoingid
insert_ongoing_docno(id, chrdistrict, chrsro, intstartrange, intendrange, chryear) ==
    [ intongoingid |-> id,
      chrdistrict |-> chrdistrict,
      chrsro |-> chrsro,
      intstartrange |-> intstartrange,
      intendrange |-> intendrange,
      chryear |-> chryear ]

\* Mutant: the duplicate check never finds a row.
check_duplicate_record_Never(records, id, intdocno) ==
    FALSE

\* SELECT 1 FROM tblongoingdocnorecords WHERE intongoingid = .. AND intdocno = ..
check_duplicate_record(records, id, intdocno) ==
    \E i \in 1..Len(records) :
        /\ records[i].intongoingid = id
        /\ records[i].intdocno = intdocno

\* INSERT INTO tblongoingdocnorecords
insert_docno_record(id, row) ==
    [intongoingid |-> id] @@ row

\* Mutant: the loop inserts every ledger row without the duplicate check.
RECURSIVE InsertLoop_NoCheck(_, _, _, _, _, _)
InsertLoop_NoCheck(rows, i, id, isNew, seen, acc) ==
    IF i > Len(rows) THEN acc
    ELSE InsertLoop_NoCheck(rows, i + 1, id, isNew, seen,
                            [acc EXCEPT !.inserted = Append(@, insert_docno_record(id, rows[i])),
                                        !.records_inserted = @ + 1])

\* Step 5 of process_batch_with_db: the loop over the ledger rows, from row
\* i on; seen are the rows the transaction sees (committed and its own).
RECURSIVE InsertLoop(_, _, _, _, _, _)
InsertLoop(rows, i, id, isNew, seen, acc) ==
    IF i > Len(rows) THEN acc
    ELSE IF ~isNew /\ check_duplicate_record(seen \o acc.inserted, id, rows[i].intdocno)
         THEN InsertLoop(rows, i + 1, id, isNew, seen,
                         [acc EXCEPT !.records_skipped = @ + 1])
         ELSE InsertLoop(rows, i + 1, id, isNew, seen,
                         [acc EXCEPT !.inserted = Append(@, insert_docno_record(id, rows[i])),
                                     !.records_inserted = @ + 1])

\* -------------------------------------------------------------- filesystem
\* The folders of SOURCE_DIR the behaviours draw from.
SourceNames ==
    { <<"Regular">> \o DIST_RAW \o SRO1_RAW \o <<"2009", "1">>,
      <<"eRegistration">> \o DIST_RAW \o SRO1_RAW \o <<"2009", "4">>,
      ISARITA_REG \o DIST_RAW \o SRO1_RAW \o <<"2009", "2">>,
      <<"Regular">> \o DIST_RAW \o SRO1_DISPLAY \o <<"2009", "1">> }

\* A file of a folder is given by the directories between the folder and the
\* file (none for a file directly inside it) and its name, the name split
\* into a stem and a suffix: a name that starts with the folder's name has
\* that name as its stem.
\* The files of a source folder: one named after the folder, one not.
SourceFiles(original_name) ==
    { [dir |-> <<>>, stem |-> original_name, suffix |-> ".html"],
      [dir |-> <<>>, stem |-> <<"notes">>, suffix |-> ".txt"] }

\* new_folder_name = f"{item['reg_type']}_{item['doc_no']}"
NewFolderName(item) ==
    item.reg_type \o <<str(item.doc_no)>>

\* The rename loop over os.listdir(dp): a file directly inside the copied
\* folder whose name starts with the old folder name gets the new folder
\* name in its place, suffix kept; the loop does not descend.
RenameFiles(files, item) ==
    { IF f.dir = <<>> /\ f.stem = item.original_name
      THEN [dir |-> f.dir, stem |-> NewFolderName(item), suffix |-> f.suffix]
      ELSE f : f \in files }

\* Step 4 for one item: dp is left alone when it exists, else the folder is
\* copied there and the files of the copy are renamed.
CopyFolder(dest_dir, dp, files, item) ==
    IF dp \in DOMAIN dest_dir
    THEN dest_dir
    ELSE dest_dir @@ (dp :> RenameFiles(files, item))

\* What a copytree/rename that raises may leave at dp: nothing, or the
\* folder with any part of the source files, none of them renamed.
PartialCopies(item) ==
    SUBSET SourceFiles(item.original_name)

\* os.listdir(SOURCE_DIR): the folders in any order.
Listings(S) ==
    { f \in [1..Cardinality(S) -> S] : \A x \in S : \E i \in DOMAIN f : f[i] = x }

\* ------------------------------------------------------------------- state
VARIABLES
    source,         \* the folders present in SOURCE_DIR
    runs,           \* number of runs of main() started so far
    pc,             \* position of the running process ("idle": none runs)
    batches,        \* main(): bid -> batch_data of the current run
    bid,            \* main(): the batch being processed
    ci,             \* process_batch_with_db: index of the next item to copy
    intongoingid,   \* process_batch_with_db: local
    is_new_parent,  \* process_batch_with_db: local
    tx_parents,     \* rows inserted by the open transaction, uncommitted
    tx_records,
    tx_counts,      \* records_inserted / records_skipped of the open batch
    db_parents,     \* committed rows of tblongoingdocno
    db_records,     \* committed rows of tblongoingdocnorecords, insert order
    seq,            \* last value of the intongoingid sequence
    dest,           \* DEST_PARENT_DIR: <<intongoingid, folder>> -> files
    run_info,       \* per run: the source set it listed, its batch count
    run_log,        \* what process_batch_with_db returned, in order
    lg_in,          \* ledger builder alone: its batch (meta, items)
    lg_rows,        \*   the rows it built
    lg_done,
    bt_in,          \* range batcher alone: BATCH_SIZE and parsed_items
    bt_out,         \*   parsed_items after the batching loop
    bt_done,
    ps_in,          \* parse_folder_name alone: the folder name
    ps_out,         \*   what it returned
    ps_done,
    sc_items,       \* scan of main() alone: os.listdir(SOURCE_DIR), each
                    \*   entry with whether it is a directory
    sc_i,           \*   position of the scan loop
    sc_parsed_items,
    sc_skipped,
    sc_batches,     \*   the batches dict built from parsed_items
    sc_pc,          \*   "scan", "batch" (loops over), "exit" (nothing valid)
    tf_layout,      \* s3_transfer: the entries under SOURCE_DIR in the order
                    \*   main() visits them, each with its files
    tf_db,          \*   db_conn and the rows of tblongoingdocno it reads
    tf_remote,      \*   the keys the remote store holds
    tf_pc,          \*   "main", "upload" (inside transfer_folder_to_s3), "done"
    tf_i,           \*   main(): position in the layout
    tf_loc,         \*   locals of transfer_folder_to_s3 / transfer_file_to_s3
    tf_results,     \*   per folder: what transfer_folder_to_s3 returned and
                    \*   the locals it logged before returning
    cp_in,          \* step 4 alone: the item, its source files, the
                    \*   intongoingid of its batch
    cp_dest,        \*   DEST_PARENT_DIR
    cp_done,
    vb_in,          \* verify_batches alone: the processed documents
    vb_out,         \*   the two lists it returned
    vb_done,
    cc_source,      \* two registrar processes on one database: SOURCE_DIR
    cc_proc,        \*   per process: position, batches, locals, open
                    \*   transaction
    cc_parents,     \*   committed rows of tblongoingdocno
    cc_records,     \*   committed rows of tblongoingdocnorecords
    cc_seq,         \*   last value of the intongoingid sequence
    cc_dest,        \*   DEST_PARENT_DIR
    cc_overlap      \*   whether a run started while the other was running

reg_vars ==
    << source, runs, pc, batches, bid, ci, intongoingid, is_new_parent,
       tx_parents, tx_records, tx_counts, db_parents, db_records, seq, dest,
       run_info, run_log >>

lg_vars == << lg_in, lg_rows, lg_done >>

bt_vars == << bt_in, bt_out, bt_done >>

ps_vars == << ps_in, ps_out, ps_done >>

sc_vars == << sc_items, sc_i, sc_parsed_items, sc_skipped, sc_batches, sc_pc >>

tf_vars == << tf_layout, tf_db, tf_remote, tf_pc, tf_i, tf_loc, tf_results >>

cp_vars == << cp_in, cp_dest, cp_done >>

vb_vars == << vb_in, vb_out, vb_done >>

cc_vars ==
    << cc_source, cc_proc, cc_parents, cc_records, cc_seq, cc_dest, cc_overlap >>

ext_vars == << vb_vars, cc_vars >>

unit_vars == << ps_vars, sc_vars, tf_vars, cp_vars, ext_vars >>

vars == << reg_vars, lg_vars, bt_vars, unit_vars >>

NoCounts == [records_inserted |-> 0, records_skipped |-> 0]

RegInit ==
    /\ source = {}
    /\ runs = 0
    /\ pc = "idle"
    /\ batches = <<>>
    /\ bid = 0
    /\ ci = 0
    /\ intongoingid = 0
    /\ is_new_parent = FALSE
    /\ tx_parents = {}
    /\ tx_records = <<>>
    /\ tx_counts = NoCounts
    /\ db_parents = {}
    /\ db_records = <<>>
    /\ seq = 0
    /\ dest = <<>>
    /\ run_info = <<>>
    /\ run_log = <<>>

LedgerIdle ==
    /\ lg_in = <<>>
    /\ lg_rows = <<>>
    /\ lg_done = FALSE

BatcherIdle ==
    /\ bt_in = <<>>
    /\ bt_out = <<>>
    /\ bt_done = FALSE

ParserIdle ==
    /\ ps_in = <<>>
    /\ ps_out = <<>>
    /\ ps_done = FALSE

ScanIdle ==
    /\ sc_items = <<>>
    /\ sc_i = 0
    /\ sc_parsed_items = <<>>
    /\ sc_skipped = 0
    /\ sc_batches = <<>>
    /\ sc_pc = "idle"

TransferIdle ==
    /\ tf_layout = <<>>
    /\ tf_db = <<>>
    /\ tf_remote = {}
    /\ tf_pc = "idle"
    /\ tf_i = 0
    /\ tf_loc = <<>>
    /\ tf_results = <<>>

CopyIdle ==
    /\ cp_in = <<>>
    /\ cp_dest = <<>>
    /\ cp_done = FALSE

VerifyIdle ==
    /\ vb_in = <<>>
    /\ vb_out = <<>>
    /\ vb_done = FALSE

ConcurrentIdle ==
    /\ cc_source = {}
    /\ cc_proc = <<>>
    /\ cc_parents = {}
    /\ cc_records = <<>>
    /\ cc_seq = 0
    /\ cc_dest = <<>>
    /\ cc_overlap = FALSE

ExtIdle ==
    /\ VerifyIdle
    /\ ConcurrentIdle

UnitsIdle ==
    /\ ParserIdle
    /\ ScanIdle
    /\ TransferIdle
    /\ CopyIdle
    /\ ExtIdle

\* The registrar: no run of main() has started, both tables are empty.
Init ==
    /\ RegInit
    /\ LedgerIdle
    /\ BatcherIdle
    /\ UnitsIdle

Meta == batches[bid].meta

ItemsMap == batches[bid].items

ItemsOrder == batches[bid].order

\* The lookup tuple of the current batch (mapped district and SRO).
LookupTuple(meta) ==
    << map_district(meta.dist), map_sro(meta.sro),
       meta.range_min, meta.range_max, meta.year >>

\* Mutant: a connection in autocommit mode, the rollback undoes nothing.
Rollback_Autocommit ==
    /\ db_parents' = db_parents \cup tx_parents
    /\ db_records' = db_records \o tx_records
    /\ tx_parents' = {}
    /\ tx_records' = <<>>
    /\ tx_counts' = NoCounts

\* conn.rollback() (or the server dropping the transaction of a lost
\* connection): the uncommitted rows are discarded, the committed tables are
\* as before; the sequence value is not given back.
Rollback ==
    /\ tx_parents' = {}
    /\ tx_records' = <<>>
    /\ tx_counts' = NoCounts
    /\ UNCHANGED << db_parents, db_records >>

\* The tuple process_batch_with_db returns, (True, intongoingid, None) or
\* (False, None, error_msg) with None as 0, together with the batch it was
\* called for, the counts it logged and the size of the committed tables at
\* the return.
Report(success) ==
    [ run |-> runs,
      bid |-> bid,
      tuple |-> LookupTuple(Meta),
      success |-> success,
      intongoingid |-> IF success THEN intongoingid ELSE 0,
      is_new_parent |-> success /\ is_new_parent,
      records_inserted |-> IF success THEN tx_counts.records_inserted ELSE 0,
      records_skipped |-> IF success THEN tx_counts.records_skipped ELSE 0,
      nparents |-> Cardinality(db_parents'),
      nrecords |-> Len(db_records') ]

\* Mutant: the loop has no break on failure.
LoopGoesOn_NoBreak(success) ==
    bid < Len(batches)

\* main(): whether the batch loop goes on after process_batch_with_db
\* returned: it breaks on failure and ends after the last bid.
LoopGoesOn(success) ==
    success /\ bid < Len(batches)

\* The locals of process_batch_with_db are gone when it returns; the batches
\* of main() are gone when the process ends.
Return(success) ==
    /\ run_log' = Append(run_log, Report(success))
    /\ pc' = IF LoopGoesOn(success) THEN "batch" ELSE "idle"
    /\ bid' = IF LoopGoesOn(success) THEN bid + 1 ELSE 0
    /\ batches' = IF LoopGoesOn(success) THEN batches ELSE <<>>
    /\ ci' = 0
    /\ intongoingid' = 0
    /\ is_new_parent' = FALSE

\* main() up to the batch loop: list SOURCE_DIR (in any order), parse, group,
\* assign local batch ids, build the batches.  New folders may have appeared
\* in SOURCE_DIR since the last run.
StartRun ==
    /\ UNCHANGED << lg_vars, bt_vars, unit_vars >>
    /\ pc = "idle"
    /\ runs < MaxRuns
    /\ \E added \in SUBSET (SourceNames \ source) :
         \E items \in Listings(source \cup added) :
           LET parsed_items == ParsedItems(items)
               bs == Batches(parsed_items, BATCH_SIZE)
           IN  /\ source' = source \cup added
               /\ runs' = runs + 1
               /\ batches' = bs
               /\ bid' = IF Len(parsed_items) = 0 THEN 0 ELSE 1
               /\ pc' = IF Len(parsed_items) = 0 THEN "idle" ELSE "batch"
               /\ run_info' = Append(run_info,
                                [source |-> source', batches |-> Len(bs)])
    /\ UNCHANGED << ci, intongoingid, is_new_parent, tx_parents, tx_records,
                    tx_counts, db_parents, db_records, seq, dest, run_log >>

\* process_batch_with_db, steps 1 to 3: look the parent up, reuse its id or
\* insert a new parent, make the batch folder.
BeginBatch ==
    /\ UNCHANGED << lg_vars, bt_vars, unit_vars >>
    /\ pc = "batch"
    /\ LET t == LookupTuple(Meta)
           found == check_duplicate_ongoing(db_parents \cup tx_parents,
                                            t[1], t[2], t[3], t[4], t[5])
       IN  IF found # {}
           THEN /\ \E existing_id \in found : intongoingid' = existing_id
                /\ is_new_parent' = FALSE
                /\ UNCHANGED << seq, tx_parents >>
           ELSE /\ seq' = seq + 1
                /\ intongoingid' = seq + 1
                /\ is_new_parent' = TRUE
                /\ tx_parents' = tx_parents \cup
                     {insert_ongoing_docno(seq + 1, t[1], t[2], t[3], t[4], t[5])}
    /\ ci' = 1
    /\ pc' = "copy"
    /\ UNCHANGED << source, runs, batches, bid, tx_records, tx_counts,
                    db_parents, db_records, dest, run_info, run_log >>

CurrentItem == ItemsMap[ItemsOrder[ci]]

CurrentDp == <<intongoingid, NewFolderName(CurrentItem)>>

\* Step 4 for one item: copytree and rename unless dp already exists.
CopyItem ==
    /\ UNCHANGED << lg_vars, bt_vars, unit_vars >>
    /\ pc = "copy"
    /\ ci <= Len(ItemsOrder)
    /\ dest' = CopyFolder(dest, CurrentDp,
                          SourceFiles(CurrentItem.original_name), CurrentItem)
    /\ ci' = ci + 1
    /\ UNCHANGED << source, runs, pc, batches, bid, intongoingid, is_new_parent,
                    tx_parents, tx_records, tx_counts, db_parents, db_records,
                    seq, run_info, run_log >>

\* What an interrupted step 4 leaves on disk: nothing new, or dp with part
\* of the files.
InterruptedCopy ==
    \/ dest' = dest
    \/ /\ pc = "copy"
       /\ ci <= Len(ItemsOrder)
       /\ CurrentDp \notin DOMAIN dest
       /\ \E files \in PartialCopies(CurrentItem) :
            dest' = dest @@ (CurrentDp :> files)

\* Step 4 raises for an item (copytree or rename fails): the except clause
\* rolls back and returns failure; what was written to dp stays.
CopyItemFails ==
    /\ UNCHANGED << lg_vars, bt_vars, unit_vars >>
    /\ pc = "copy"
    /\ ci <= Len(ItemsOrder)
    /\ CurrentDp \notin DOMAIN dest
    /\ InterruptedCopy
    /\ Rollback
    /\ Return(FALSE)
    /\ UNCHANGED << source, runs, seq, run_info >>

\* Step 5: the gap-filling loop with its duplicate checks and inserts.
InsertRecords ==
    /\ UNCHANGED << lg_vars, bt_vars, unit_vars >>
    /\ pc = "copy"
    /\ ci > Len(ItemsOrder)
    /\ LET out == InsertLoop(BuildLedger(Meta, ItemsMap), 1, intongoingid,
                             is_new_parent, db_records \o tx_records,
                             [inserted |-> <<>>, records_inserted |-> 0,
                              records_skipped |-> 0])
       IN  /\ tx_records' = tx_records \o out.inserted
           /\ tx_counts' = [records_inserted |-> out.records_inserted,
                            records_skipped |-> out.records_skipped]
    /\ pc' = "commit"
    /\ UNCHANGED << source, runs, batches, bid, ci, intongoingid, is_new_parent,
                    tx_parents, db_parents, db_records, seq, dest, run_info,
                    run_log >>

\* conn.commit() and the return of success; main() goes to the next batch.
Commit ==
    /\ UNCHANGED << lg_vars, bt_vars, unit_vars >>
    /\ pc = "commit"
    /\ db_parents' = db_parents \cup tx_parents
    /\ db_records' = db_records \o tx_records
    /\ tx_parents' = {}
    /\ tx_records' = <<>>
    /\ tx_counts' = NoCounts
    /\ Return(TRUE)
    /\ UNCHANGED << source, runs, seq, dest, run_info >>

\* A database call of the batch raises (lookup, insert, commit): the except
\* clause rolls back and returns failure.
BatchRaises ==
    /\ UNCHANGED << lg_vars, bt_vars, unit_vars >>
    /\ pc \in {"batch", "copy", "commit"}
    /\ Rollback
    /\ Return(FALSE)
    /\ UNCHANGED << source, runs, seq, dest, run_info >>

\* The process is terminated inside a batch: the connection is lost, the
\* server discards the open transaction, nothing is returned or logged.  A
\* kill during a copy leaves what was written so far.
Kill ==
    /\ UNCHANGED << lg_vars, bt_vars, unit_vars >>
    /\ pc \in {"batch", "copy", "commit"}
    /\ InterruptedCopy
    /\ Rollback
    /\ pc' = "idle"
    /\ bid' = 0
    /\ batches' = <<>>
    /\ ci' = 0
    /\ intongoingid' = 0
    /\ is_new_parent' = FALSE
    /\ UNCHANGED << source, runs, seq, run_info, run_log >>

Next ==
    \/ StartRun
    \/ BeginBatch
    \/ CopyItem
    \/ CopyItemFails
    \/ InsertRecords
    \/ Commit
    \/ BatchRaises
    \/ Kill

Spec == Init /\ [][Next]_vars

\* ------------------------------------------------------- registrar claims
Succeeded == {i \in DOMAIN run_log : run_log[i].success}

ParentTuple(p) ==
    <<p.chrdistrict, p.chrsro, p.intstartrange, p.intendrange, p.chryear>>

ParentIds == {p.intongoingid : p \in db_parents}

RowsOf(id, d) ==
    {k \in DOMAIN db_records : /\ db_records[k].intongoingid = id
                               /\ db_records[k].intdocno = d}

\* Run r returned success for every one of its batches.
AllCommitted(r) ==
    Cardinality({i \in Succeeded : run_log[i].run = r}) = run_info[r].batches

\* C1: when a run committed every batch and the next run lists the same
\* source set, every batch the next run registers finds the parent of the
\* first run and reuses its id, inserts no parent and no child row, and
\* counts every document number of the range as skipped.
C1_Idempotence ==
    \A r \in 2..Len(run_info) :
        (run_info[r].source = run_info[r - 1].source /\ AllCommitted(r - 1)) =>
            \A i \in Succeeded :
                run_log[i].run = r =>
                    /\ ~run_log[i].is_new_parent
                    /\ \E j \in Succeeded :
                         /\ run_log[j].run = r - 1
                         /\ run_log[j].tuple = run_log[i].tuple
                         /\ run_log[j].intongoingid = run_log[i].intongoingid
                    /\ run_log[i].records_inserted = 0
                    /\ run_log[i].records_skipped =
                           run_log[i].tuple[4] - run_log[i].tuple[3] + 1
                    /\ run_log[i].nparents = run_log[i - 1].nparents
                    /\ run_log[i].nrecords = run_log[i - 1].nrecords

C1_Witness ==
    \E r \in 2..Len(run_info) :
        /\ run_info[r].source = run_info[r - 1].source
        /\ run_info[r].batches >= 2
        /\ AllCommitted(r - 1)
        /\ AllCommitted(r)

\* C2: every successful registration of a lookup tuple, in whatever run,
\* returns the id of the one committed parent of that tuple, and all child
\* rows of one (district, sro, year, document number) carry one id.
C2_StableId ==
    /\ \A i, j \in Succeeded :
           run_log[i].tuple = run_log[j].tuple =>
               run_log[i].intongoingid = run_log[j].intongoingid
    /\ \A i \in Succeeded :
           \E p \in db_parents : /\ p.intongoingid = run_log[i].intongoingid
                                 /\ ParentTuple(p) = run_log[i].tuple
    /\ \A a, b \in DOMAIN db_records :
           ( /\ db_records[a].chrdistrict = db_records[b].chrdistrict
             /\ db_records[a].chrsro = db_records[b].chrsro
             /\ db_records[a].chryear = db_records[b].chryear
             /\ db_records[a].intdocno = db_records[b].intdocno )
           => db_records[a].intongoingid = db_records[b].intongoingid

\* A tuple registered in two runs, the later one after a failed batch and
\* over a grown source set.
C2_Witness ==
    \E i, j \in Succeeded :
        /\ run_log[i].run < run_log[j].run
        /\ run_log[i].tuple = run_log[j].tuple
        /\ run_info[run_log[i].run].source # run_info[run_log[j].run].source
        /\ \E k \in DOMAIN run_log : ~run_log[k].success /\ k < j

\* C3: for every batch reported successful the child table holds exactly one
\* row per document number of the range under the batch's id.
C3_ExactlyOnce ==
    \A i \in Succeeded :
        \A d \in run_log[i].tuple[3]..run_log[i].tuple[4] :
            Cardinality(RowsOf(run_log[i].intongoingid, d)) = 1

\* A batch registered again under an existing parent (duplicate-checking
\* mode), every row skipped.
C3_Witness ==
    \E i \in Succeeded :
        /\ ~run_log[i].is_new_parent
        /\ run_log[i].records_skipped = BATCH_SIZE
        /\ run_log[i].run = 2

\* C4: no two parent rows, committed or pending, share a lookup tuple; after
\* step 1 the batch holds the id of the committed parent of its tuple when
\* there is one, and a freshly inserted parent only when there is none.
C4_ParentUnique ==
    /\ \A p, q \in db_parents \cup tx_parents :
           ParentTuple(p) = ParentTuple(q) => p = q
    /\ pc \in {"copy", "commit"} =>
           LET m == {p \in db_parents : ParentTuple(p) = LookupTuple(Meta)}
           IN  IF m = {}
               THEN /\ is_new_parent
                    /\ intongoingid \notin ParentIds
                    /\ \E p \in tx_parents : /\ p.intongoingid = intongoingid
                                             /\ ParentTuple(p) = LookupTuple(Meta)
               ELSE /\ ~is_new_parent
                    /\ intongoingid \in {p.intongoingid : p \in m}
                    /\ tx_parents = {}

\* A batch reusing a committed parent in a run that follows a failed batch.
C4_Witness ==
    /\ pc = "copy"
    /\ ~is_new_parent
    /\ runs = 2
    /\ \E k \in DOMAIN run_log : ~run_log[k].success

DbSame ==
    /\ db_parents' = db_parents
    /\ db_records' = db_records

\* Nothing of a batch that inserted its parent is committed.
NoTrace ==
    is_new_parent =>
        /\ \A p \in db_parents' : p.intongoingid # intongoingid
        /\ \A k \in DOMAIN db_records' : db_records'[k].intongoingid # intongoingid

DestKept ==
    \A k \in DOMAIN dest : k \in DOMAIN dest' /\ dest'[k] = dest[k]

FailedReported ==
    /\ Len(run_log') = Len(run_log) + 1
    /\ SubSeq(run_log', 1, Len(run_log)) = run_log
    /\ ~run_log'[Len(run_log')].success
    /\ run_log'[Len(run_log')].run = runs
    /\ run_log'[Len(run_log')].bid = bid

\* C5 as stated: a batch that raises or whose process is killed leaves the
\* committed tables as they were, keeps the copied folders, and is reported
\* failed.
C5_AsStated ==
    [][ (CopyItemFails \/ BatchRaises \/ Kill) =>
            (DbSame /\ NoTrace /\ DestKept /\ FailedReported) ]_vars

\* C5 amended: the committed tables change only by a commit; a batch that
\* raises leaves them as they were, keeps the copied folders and is reported
\* failed; a killed process leaves them as they were, keeps the copied
\* folders, and reports nothing.
C5_Atomicity ==
    [][ /\ (CopyItemFails \/ BatchRaises) =>
               (DbSame /\ NoTrace /\ DestKept /\ FailedReported)
        /\ Kill => (DbSame /\ NoTrace /\ DestKept /\ run_log' = run_log)
        /\ ~Commit => DbSame ]_vars

\* A failed batch after a committed one: a folder copied under the id of the
\* rolled-back parent is on disk, the committed parent is still there.
C5_Witness ==
    /\ run_log # <<>>
    /\ ~run_log[Len(run_log)].success
    /\ run_log[Len(run_log)].bid = 2
    /\ db_parents # {}
    /\ \E k \in DOMAIN dest : k[1] \notin ParentIds /\ dest[k] # {}

\* C6: the reports of a run are for bid 1, 2, ... in this order, each after
\* the success of the one before; a failure is the last report of its run,
\* and while a batch is in progress every smaller bid of the run has been
\* reported successful; a batch reported successful has its parent committed.
C6_FailFast ==
    /\ \A i \in DOMAIN run_log :
           /\ IF run_log[i].bid = 1
              THEN i = 1 \/ run_log[i - 1].run < run_log[i].run
              ELSE /\ i > 1
                   /\ run_log[i - 1].run = run_log[i].run
                   /\ run_log[i - 1].bid = run_log[i].bid - 1
                   /\ run_log[i - 1].success
           /\ run_log[i].success =>
                  \E p \in db_parents : /\ p.intongoingid = run_log[i].intongoingid
                                        /\ ParentTuple(p) = run_log[i].tuple
    /\ pc # "idle" =>
           /\ bid >= 1
           /\ \A k \in 1..(bid - 1) :
                  \E i \in Succeeded : run_log[i].run = runs /\ run_log[i].bid = k
           /\ \A i \in DOMAIN run_log : run_log[i].run = runs => run_log[i].success

\* The second of three batches failed and the run is over.
C6_Witness ==
    /\ pc = "idle"
    /\ \E i \in DOMAIN run_log :
           /\ ~run_log[i].success
           /\ run_log[i].bid = 2
           /\ run_info[run_log[i].run].batches = 3
           /\ i = Len(run_log)

\* C21: a committed child row is never deleted and never changed: every step
\* leaves the committed rows as a prefix of the child table, and a step that
\* commits adds no row for an (intongoingid, intdocno) the table already
\* holds, whatever the source set of the run is.
C21_RowsUntouched ==
    [][ /\ Len(db_records') >= Len(db_records)
        /\ SubSeq(db_records', 1, Len(db_records)) = db_records
        /\ \A k \in (Len(db_records) + 1)..Len(db_records') :
               ~check_duplicate_record(db_records, db_records'[k].intongoingid,
                                       db_records'[k].intdocno) ]_vars

\* A later run over a grown source set registered a batch under an existing
\* parent, skipped rows that were there and inserted none.
C21_Witness ==
    \E i \in Succeeded :
        /\ run_log[i].run >= 2
        /\ run_info[run_log[i].run].source # run_info[1].source
        /\ ~run_log[i].is_new_parent
        /\ run_log[i].records_skipped > 0
        /\ run_log[i].records_inserted = 0
        /\ run_log[i].nrecords > 0

C27_DistinctIds ==
    [][ ( /\ Len(run_log') = Len(run_log) + 1
          /\ run_log'[Len(run_log')].success )
        => \A i \in Succeeded :
               ( /\ run_log[i].run = runs
                 /\ batches[run_log[i].bid].meta # Meta )
               => run_log[i].intongoingid # intongoingid
      ]_vars

\* The committed child rows of the document of a source folder.
RowsOfDocument(it) ==
    { k \in DOMAIN db_records :
        /\ db_records[k].chrdistrict = map_district(it.dist)
        /\ db_records[k].chrsro = map_sro(it.sro)
        /\ db_records[k].chryear = it.year
        /\ db_records[k].intdocno = it.doc_no }

\* C29: when a run has ended with every batch committed, every folder of
\* the source set it listed whose registration type is not iSarita 2.0 has
\* a committed child row, and its rows say Found and carry its type.
C29_LedgerReflectsSource ==
    ( pc = "idle" /\ runs >= 1 /\ AllCommitted(runs) ) =>
        \A name \in run_info[runs].source :
            LET it == parse_folder_name(name)
            IN  it.reg_type # ISARITA_REG =>
                    /\ RowsOfDocument(it) # {}
                    /\ \A k \in RowsOfDocument(it) :
                           /\ db_records[k].crawling_status = "Found"
                           /\ db_records[k].chrregistrationtype = it.reg_type

\* ------------------------------------------------- ledger builder alone
RegTypes == {<<"Regular">>, <<"eRegistration">>, ISARITA_REG}

\* The batches the builder is run on: a range of 1..MaxRange numbers at
\* logical index -1, 0 or 1, and any subset of its numbers present, each
\* with any registration type (the items as test_gaps_filled gives them).
LedgerMetas ==
    { [ dist |-> DIST_RAW, sro |-> SRO1_RAW, year |-> "2009",
        range_min |-> RangeMin(l, B), range_max |-> RangeMax(l, B) ] :
      l \in {-1, 0, 1}, B \in 1..MaxRange }

LedgerItems(m) ==
    UNION { { [ d \in D |-> [ reg_type |-> regs[d], dist |-> m.dist,
                              sro |-> m.sro, year |-> m.year, doc_no |-> d ] ] :
              regs \in [D -> RegTypes] } :
            D \in SUBSET (m.range_min..m.range_max) }

InitLedger ==
    /\ RegInit
    /\ BatcherIdle
    /\ UnitsIdle
    /\ \E m \in LedgerMetas :
         \E items_map \in LedgerItems(m) :
           lg_in = [meta |-> m, items |-> items_map]
    /\ lg_rows = <<>>
    /\ lg_done = FALSE

\* The gap-filling loop of step 5 over the whole range.
BuildRows ==
    /\ ~lg_done
    /\ lg_rows' = BuildLedger(lg_in.meta, lg_in.items)
    /\ lg_done' = TRUE
    /\ UNCHANGED << reg_vars, bt_vars, unit_vars, lg_in >>

SpecLedger == InitLedger /\ [][BuildRows]_vars

\* C7: the ledger built for a batch has range_max - range_min + 1 rows, the
\* i-th for document number range_min + i - 1, whatever subset of the range
\* is present.
C7_GapFilling ==
    lg_done =>
        /\ Len(lg_rows) = lg_in.meta.range_max - lg_in.meta.range_min + 1
        /\ \A i \in 1..Len(lg_rows) :
               lg_rows[i].intdocno = lg_in.meta.range_min + i - 1
        /\ \A d \in lg_in.meta.range_min..lg_in.meta.range_max :
               Cardinality({i \in 1..Len(lg_rows) : lg_rows[i].intdocno = d}) = 1

\* Three rows built for a batch with no document present.
C7_Witness ==
    /\ lg_done
    /\ DOMAIN lg_in.items = {}
    /\ Len(lg_rows) = 3
    /\ lg_rows[3].intdocno = lg_in.meta.range_max

\* C8: a row is Found with the document's own registration type exactly when
\* the number is present with a type other than iSarita_2.0; every other row
\* is "iSarita 2.0" / Not Found, an absent number with the (display-mapped)
\* district, SRO and the year of the batch meta; every row is Pending.
C8_FoundPolicy ==
    lg_done =>
        \A i \in 1..Len(lg_rows) :
            LET r == lg_rows[i]
                d == r.intdocno
                present == d \in DOMAIN lg_in.items
                found == present /\ lg_in.items[d].reg_type # ISARITA_REG
            IN  /\ (r.crawling_status = "Found") <=> found
                /\ found => r.chrregistrationtype = lg_in.items[d].reg_type
                /\ ~found => /\ r.chrregistrationtype = <<"iSarita 2.0">>
                             /\ r.crawling_status = "Not Found"
                /\ ~present => /\ r.chrdistrict = DIST_DISPLAY
                               /\ r.chrsro = SRO1_DISPLAY
                               /\ r.chryear = lg_in.meta.year
                /\ r.extraction_status = "Pending"

\* A batch with a Regular, a present iSarita_2.0 and an absent number.
C8_Witness ==
    /\ lg_done
    /\ Len(lg_rows) = 3
    /\ lg_in.meta.range_min = 1
    /\ DOMAIN lg_in.items = {1, 2}
    /\ lg_in.items[1].reg_type = <<"Regular">>
    /\ lg_in.items[2].reg_type = ISARITA_REG
    /\ lg_rows[1].crawling_status = "Found"
    /\ lg_rows[2].crawling_status = "Not Found"
    /\ lg_rows[3].crawling_status = "Not Found"

\* --------------------------------------------------- range batcher alone
BatchSizes == {1, BATCH_SIZE, BATCH_SIZE_REF}

BatcherGroups ==
    { <<DIST_RAW, SRO1_RAW, "2009">>, <<DIST_RAW, SRO1_DISPLAY, "2009">> }

BatcherDocs(B) == {0, 1, B, B + 1, 2 * B + 1}

\* The items as test_value_based_batching_logic gives them.
BatcherItems(B) ==
    { [ original_name |-> <<"Doc">>, dist |-> g[1], sro |-> g[2],
        year |-> g[3], doc_no |-> d ] :
      g \in BatcherGroups, d \in BatcherDocs(B) }

InitBatcher ==
    /\ RegInit
    /\ LedgerIdle
    /\ UnitsIdle
    /\ \E B \in BatchSizes :
         \E n \in 1..MaxListing :
           \E parsed_items \in [1..n -> BatcherItems(B)] :
             bt_in = [B |-> B, items |-> parsed_items]
    /\ bt_out = <<>>
    /\ bt_done = FALSE

\* The grouping, sorting and batching loops of main().
AssignBatches ==
    /\ ~bt_done
    /\ bt_out' = Assigned(bt_in.items, bt_in.B)
    /\ bt_done' = TRUE
    /\ UNCHANGED << reg_vars, lg_vars, unit_vars, bt_in >>

SpecBatcher == InitBatcher /\ [][AssignBatches]_vars

\* C9: for doc_no >= 1 the range given to an item is that of the logical
\* index floor((doc_no - 1) / BATCH_SIZE), it contains doc_no, the range of
\* the next logical index starts right after it, and two ranges are equal or
\* disjoint.
C9_RangeBucketing ==
    bt_done =>
        \A i \in 1..Len(bt_out) :
            LET B == bt_in.B
                it == bt_out[i]
                L == (it.doc_no - 1) \div B
            IN  it.doc_no >= 1 =>
                    /\ it.range_min = L * B + 1
                    /\ it.range_max = L * B + B
                    /\ it.range_min <= it.doc_no
                    /\ it.doc_no <= it.range_max
                    /\ RangeMin(L + 1, B) = it.range_max + 1
                    /\ RangeMax(L + 1, B) = it.range_max + B
                    /\ \A j \in 1..Len(bt_out) :
                         bt_out[j].doc_no >= 1 =>
                           /\ \/ /\ bt_out[j].range_min = it.range_min
                                 /\ bt_out[j].range_max = it.range_max
                              \/ bt_out[j].range_max < it.range_min
                              \/ it.range_max < bt_out[j].range_min
                           /\ (bt_out[j].doc_no - 1) \div B = L + 1 =>
                                  bt_out[j].range_min = it.range_max + 1

\* Documents 2000 and 2001 with BATCH_SIZE 2000: ranges 1-2000 and 2001-4000.
C9_Witness ==
    /\ bt_done
    /\ bt_in.B = BATCH_SIZE_REF
    /\ \E i, j \in 1..Len(bt_out) :
         /\ bt_out[i].doc_no = 2000
         /\ bt_out[j].doc_no = 2001
         /\ bt_out[i].range_min = 1
         /\ bt_out[i].range_max = 2000
         /\ bt_out[j].range_min = 2001
         /\ bt_out[j].range_max = 4000

BatchKeyOf(it, B) ==
    <<it.dist, it.sro, it.year, (it.doc_no - 1) \div B>>

\* C10: the local sequence numbers are 1..K for K distinct batch keys, equal
\* for two items exactly when the batch keys are equal, ascending with the
\* logical index inside a group, and ascending across groups in the order in
\* which the groups first occur; documents 1 and 2001 of one group get 1 and
\* 2 with BATCH_SIZE 2000.
C10_LocalSequence ==
    bt_done =>
        LET B == bt_in.B
            n == Len(bt_out)
            grp(i) == <<bt_out[i].dist, bt_out[i].sro, bt_out[i].year>>
            firstOf(i) == CHOOSE k \in 1..n :
                              /\ grp(k) = grp(i)
                              /\ \A m \in 1..(k - 1) : grp(m) # grp(i)
        IN  /\ {bt_out[i].sub_dir_id : i \in 1..n} =
                   1..Cardinality({BatchKeyOf(bt_out[i], B) : i \in 1..n})
            /\ \A i, j \in 1..n :
                   /\ (bt_out[i].sub_dir_id = bt_out[j].sub_dir_id) <=>
                          (BatchKeyOf(bt_out[i], B) = BatchKeyOf(bt_out[j], B))
                   /\ ( /\ grp(i) = grp(j)
                        /\ (bt_out[i].doc_no - 1) \div B < (bt_out[j].doc_no - 1) \div B )
                      => bt_out[i].sub_dir_id < bt_out[j].sub_dir_id
                   /\ firstOf(i) < firstOf(j) =>
                          bt_out[i].sub_dir_id < bt_out[j].sub_dir_id
            /\ \A i, j \in 1..n :
                   ( /\ B = 2000
                     /\ grp(i) = grp(j)
                     /\ bt_out[i].doc_no = 1
                     /\ bt_out[j].doc_no = 2001
                     /\ n = 2 )
                   => (bt_out[i].sub_dir_id = 1 /\ bt_out[j].sub_dir_id = 2)

\* Document 2001 listed before document 1 of the same group.
C10_Witness ==
    /\ bt_done
    /\ bt_in.B = BATCH_SIZE_REF
    /\ Len(bt_out) = 2
    /\ bt_out[1].doc_no = 2001
    /\ bt_out[2].doc_no = 1
    /\ bt_out[1].sro = bt_out[2].sro
    /\ bt_out[1].sub_dir_id = 2
    /\ bt_out[2].sub_dir_id = 1

\* ------------------------------------------------ parse_folder_name alone
\* The tokens the generated folder names are made of: the two marker tokens,
\* a word, a numeral, a signed numeral and the empty token (two adjacent or
\* a trailing underscore).
ParseTokens == {"iSarita", "2.0", "R", "2", "-5", ""}

\* Every name of 1..MaxTokens tokens (str.split never gives an empty list).
TokenNames ==
    UNION { [1..n -> ParseTokens] : n \in 1..MaxTokens }

\* The name test_parse_folder_name_regular parses.
TEST_FOLDER_NAME == <<"Regular">> \o DIST_RAW \o SRO1_RAW \o <<"2009", "2">>

\* Names as they occur in SOURCE_DIR: long SROs, a leading zero, a
\* non-numeric and a negative document number.
ExampleNames ==
    SourceNames \cup
    { TEST_FOLDER_NAME,
      ISARITA_REG \o DIST_RAW \o SRO3_RAW \o <<"2010", "01">>,
      <<"eRegistration">> \o DIST_RAW \o SRO2_RAW \o <<"2009", "x">>,
      <<"Regular">> \o DIST_RAW \o SRO2_RAW \o <<"2009", "-5">>,
      <<"Regular">> \o DIST_RAW \o <<"2009", "7">>,
      ISARITA_REG \o DIST_RAW \o <<"2009">> }

ParserNames == TokenNames \cup ExampleNames

InitParser ==
    /\ RegInit
    /\ LedgerIdle
    /\ BatcherIdle
    /\ ScanIdle
    /\ TransferIdle
    /\ CopyIdle
    /\ ExtIdle
    /\ ps_in \in ParserNames
    /\ ps_out = <<>>
    /\ ps_done = FALSE

\* One call of parse_folder_name.
Parse ==
    /\ ~ps_done
    /\ ps_out' = parse_folder_name(ps_in)
    /\ ps_done' = TRUE
    /\ UNCHANGED << reg_vars, lg_vars, bt_vars, sc_vars, tf_vars, cp_vars, ext_vars, ps_in >>

SpecParser == InitParser /\ [][Parse]_vars

\* Whether the name starts with the two-token iSarita 2.0 marker followed by
\* at least one more token.
HasMarker(name) ==
    /\ Len(name) > 2
    /\ name[1] = "iSarita"
    /\ name[2] = "2.0"

\* The tokens of the name after its registration-type prefix.
AfterPrefix(name) ==
    SubSeq(name, IF HasMarker(name) THEN 3 ELSE 2, Len(name))

\* C11: of an identity that parse returns, the registration type is the first
\* token (the first two jointly for the iSarita 2.0 marker); of the tokens
\* after it the last is the document number, the one before it the year as
\* a string, the first two the district, the ones between district and year
\* the SRO (the empty string when there are none); registration type,
\* district, SRO tokens, year and number token together are the whole name,
\* which is kept as original_name; the test's name gives the test's identity.
C11_ParseDecomposition ==
    (ps_done /\ ps_out # None) =>
        LET rest == AfterPrefix(ps_in)
            n == Len(rest)
            between == SubSeq(rest, 3, n - 2)
        IN  /\ n >= 4
            /\ ps_out.original_name = ps_in
            /\ ps_out.reg_type =
                 (IF HasMarker(ps_in) THEN <<"iSarita", "2.0">> ELSE <<ps_in[1]>>)
            /\ ps_out.doc_no = IntTable[rest[n]]
            /\ ps_out.year = rest[n - 1]
            /\ ps_out.dist = <<rest[1], rest[2]>>
            /\ ps_out.sro = (IF between = <<>> THEN <<"">> ELSE between)
            /\ ps_out.reg_type \o ps_out.dist \o between
                 \o <<ps_out.year, rest[n]>> = ps_in
            /\ (ps_in = TEST_FOLDER_NAME =>
                  ps_out = [ original_name |-> TEST_FOLDER_NAME,
                             reg_type |-> <<"Regular">>,
                             dist |-> <<"Mumbai", "Jilha">>,
                             sro |-> <<"Joint", "S.R.", "Mumbai", "1",
                                       "(Mumbai", "City", "1", "(Fort))">>,
                             year |-> "2009",
                             doc_no |-> 2 ])

\* An iSarita 2.0 name with a multi-token SRO has been parsed.
C11_Witness ==
    /\ ps_done
    /\ ps_out # None
    /\ HasMarker(ps_in)
    /\ Len(ps_out.sro) > 1
    /\ ps_out.doc_no = 1

\* C12: parse returns the failure value whenever fewer than four tokens
\* remain after the registration-type prefix or the last token is not a
\* non-negative integer, so every identity has document_number >= 0.
C12_ParseRejection ==
    ps_done =>
        LET rest == AfterPrefix(ps_in)
            last == rest[Len(rest)]
            non_negative == /\ last \in DOMAIN IntTable
                            /\ IntTable[last] >= 0
        IN  /\ (Len(rest) < 4 \/ ~non_negative) => ps_out = None
            /\ ps_out # None => ps_out.doc_no >= 0

\* ------------------------------------------------ the scan of main() alone
\* Entries of SOURCE_DIR: folders that parse (two of one batch, one of
\* another group, one with a negative number, two with the document number
\* of the first: another registration type, the number with a leading
\* zero), folders that do not (too few tokens, a non-numeric number), and
\* plain files, one with a folder's name.
ScanEntries ==
    { [name |-> <<"Regular">> \o DIST_RAW \o SRO1_RAW \o <<"2009", "1">>, isdir |-> TRUE],
      [name |-> ISARITA_REG \o DIST_RAW \o SRO1_RAW \o <<"2009", "2">>, isdir |-> TRUE],
      [name |-> <<"eRegistration">> \o DIST_RAW \o SRO2_RAW \o <<"2010", "4">>,
       isdir |-> TRUE],
      [name |-> <<"Regular">> \o DIST_RAW \o SRO2_RAW \o <<"2009", "-5">>,
       isdir |-> TRUE],
      [name |-> <<"lost+found">>, isdir |-> TRUE],
      [name |-> <<"Regular">> \o DIST_RAW \o SRO1_RAW \o <<"2009", "x">>, isdir |-> TRUE],
      [name |-> <<"notes.txt">>, isdir |-> FALSE],
      [name |-> <<"Regular">> \o DIST_RAW \o SRO1_RAW \o <<"2009", "3">>, isdir |-> FALSE],
      [name |-> <<"eRegistration">> \o DIST_RAW \o SRO1_RAW \o <<"2009", "1">>, isdir |-> TRUE],
      [name |-> <<"Regular">> \o DIST_RAW \o SRO1_RAW \o <<"2009", "01">>, isdir |-> TRUE] }

\* os.listdir: up to MaxScan distinct entries in any order.
ScanListings ==
    UNION { { l \in [1..n -> ScanEntries] :
                \A i, j \in 1..n : i # j => l[i].name # l[j].name } :
            n \in 0..MaxScan }

InitScan ==
    /\ RegInit
    /\ LedgerIdle
    /\ BatcherIdle
    /\ ParserIdle
    /\ TransferIdle
    /\ CopyIdle
    /\ ExtIdle
    /\ sc_items \in ScanListings
    /\ sc_i = 1
    /\ sc_parsed_items = <<>>
    /\ sc_skipped = 0
    /\ sc_batches = <<>>
    /\ sc_pc = "scan"

\* Mutant: a folder that fails to parse is not counted.
ScanEntry_NoCount(entry, parsed_items, skipped) ==
    IF ~entry.isdir
    THEN [parsed_items |-> parsed_items, skipped |-> skipped]
    ELSE LET meta == parse_folder_name(entry.name)
         IN  IF meta # None
             THEN [parsed_items |-> Append(parsed_items, meta), skipped |-> skipped]
             ELSE [parsed_items |-> parsed_items, skipped |-> skipped]

\* The body of the scan loop for one entry of the listing.
ScanEntry(entry, parsed_items, skipped) ==
    IF ~entry.isdir
    THEN [parsed_items |-> parsed_items, skipped |-> skipped]
    ELSE LET meta == parse_folder_name(entry.name)
         IN  IF meta # None
             THEN [parsed_items |-> Append(parsed_items, meta), skipped |-> skipped]
             ELSE [parsed_items |-> parsed_items, skipped |-> skipped + 1]

\* One iteration of "for folder in items".
ScanFolder ==
    /\ sc_pc = "scan"
    /\ sc_i <= Len(sc_items)
    /\ LET out == ScanEntry(sc_items[sc_i], sc_parsed_items, sc_skipped)
       IN  /\ sc_parsed_items' = out.parsed_items
           /\ sc_skipped' = out.skipped
    /\ sc_i' = sc_i + 1
    /\ UNCHANGED << reg_vars, lg_vars, bt_vars, ps_vars, tf_vars, cp_vars, ext_vars, sc_items,
                    sc_batches, sc_pc >>

\* After the loop: main() returns when nothing parsed, else groups the items
\* and builds the batches.
ScanDone ==
    /\ sc_pc = "scan"
    /\ sc_i > Len(sc_items)
    /\ IF Len(sc_parsed_items) = 0
       THEN /\ sc_pc' = "exit"
            /\ UNCHANGED sc_batches
       ELSE /\ sc_pc' = "batch"
            /\ sc_batches' = Batches(sc_parsed_items, BATCH_SIZE)
    /\ UNCHANGED << reg_vars, lg_vars, bt_vars, ps_vars, tf_vars, cp_vars, ext_vars, sc_items,
                    sc_i, sc_parsed_items, sc_skipped >>

NextScan ==
    \/ ScanFolder
    \/ ScanDone

SpecScan == InitScan /\ [][NextScan]_vars

\* The positions of the listing scanned so far that are directories.
ScannedDirs ==
    { i \in 1..(sc_i - 1) : sc_items[i].isdir }

\* C13: parse returns an identity or the failure value for every folder name
\* of the listing; a directory that fails to parse only adds one to the skip
\* count: parsed + skipped is the number of directories scanned so far, the
\* scan always reaches the end of the listing, and every directory that
\* parses is an item of parsed_items and has a batch of its group whose range
\* holds its document number.
C13_ParseFailureNonFatal ==
    /\ \A i \in DOMAIN sc_items :
         LET meta == parse_folder_name(sc_items[i].name)
         IN  meta = None \/ DOMAIN meta =
               {"original_name", "reg_type", "dist", "sro", "year", "doc_no"}
    /\ sc_pc \in {"scan", "batch", "exit"} =>
         /\ Len(sc_parsed_items) + sc_skipped = Cardinality(ScannedDirs)
         /\ \A i \in ScannedDirs :
              parse_folder_name(sc_items[i].name) # None =>
                \E k \in DOMAIN sc_parsed_items :
                  sc_parsed_items[k].original_name = sc_items[i].name
    /\ sc_pc \in {"batch", "exit"} => sc_i = Len(sc_items) + 1
    /\ sc_pc = "batch" =>
         \A i \in ScannedDirs :
           LET meta == parse_folder_name(sc_items[i].name)
           IN  meta # None =>
                 \E b \in DOMAIN sc_batches :
                   /\ meta.doc_no \in DOMAIN sc_batches[b].items
                   /\ sc_batches[b].meta.dist = meta.dist
                   /\ sc_batches[b].meta.sro = meta.sro
                   /\ sc_batches[b].meta.year = meta.year
                   /\ sc_batches[b].meta.range_min <= meta.doc_no
                   /\ meta.doc_no <= sc_batches[b].meta.range_max

\* A listing with a directory that does not parse before one that does has
\* been scanned and batched.
C13_Witness ==
    /\ sc_pc = "batch"
    /\ sc_skipped >= 1
    /\ \E i, j \in ScannedDirs :
         /\ i < j
         /\ parse_folder_name(sc_items[i].name) = None
         /\ parse_folder_name(sc_items[j].name) # None

\* The batches that hold the folder of a parsed item among their items.
BatchesHolding(original_name) ==
    { b \in DOMAIN sc_batches :
        \E d \in DOMAIN sc_batches[b].items :
            sc_batches[b].items[d].original_name = original_name }

\* Every (batch, item) of the batches dict.
AllBatchItems ==
    UNION { { <<b, d>> : d \in DOMAIN sc_batches[b].items } : b \in DOMAIN sc_batches }

\* C26: when the batches are built, every folder that parsed is an item of
\* exactly one batch, the batches hold as many items as folders parsed, and
\* two folders of one batch have different destination folder names.
C26_NoFolderDropped ==
    sc_pc = "batch" =>
        /\ \A k \in DOMAIN sc_parsed_items :
               Cardinality(BatchesHolding(sc_parsed_items[k].original_name)) = 1
        /\ Cardinality(AllBatchItems) = Len(sc_parsed_items)
        /\ \A k, l \in DOMAIN sc_parsed_items :
               ( /\ k # l
                 /\ GroupKey(sc_parsed_items[k]) = GroupKey(sc_parsed_items[l])
                 /\ LogicalIndex(sc_parsed_items[k].doc_no, BATCH_SIZE) =
                        LogicalIndex(sc_parsed_items[l].doc_no, BATCH_SIZE) )
               => NewFolderName(sc_parsed_items[k]) # NewFolderName(sc_parsed_items[l])

\* ------------------------------------------------------------- s3_transfer
\* A path is the sequence of its components, each a string (token tuple);
\* the s3_base_path "x/y/" is the sequence of the components before the
\* trailing slash.
S3_ROOT == <<"s3://calyso/marshaltestrealestate">>

max_retries == 3

\* A column that is NULL, a value that is None.
NULL == <<>>

\* tok.replace(" ", "_") for one token: the display forms the tables hold
\* split at their spaces; a token without a space is unchanged.
ReplaceSpace(tok) ==
    CASE tok = "Mumbai District" -> <<"Mumbai", "District">>
      [] tok = DIST_DISPLAY[1] -> DIST_RAW
      [] tok = SRO1_DISPLAY[1] -> SRO1_RAW
      [] tok = SRO2_DISPLAY[1] -> SRO2_RAW
      [] tok = SRO3_DISPLAY[1] -> SRO3_RAW
      [] OTHER -> <<tok>>

\* s.replace(" ", "_")
RECURSIVE Underscore(_)
Underscore(s) ==
    IF s = <<>> THEN <<>>
    ELSE ReplaceSpace(Head(s)) \o Underscore(Tail(s))

\* DISTRICT_MAP.get(d, d) of s3_transfer.py: the raw and the display form of
\* the district both map to "Mumbai_District".
s3_map_district(d) ==
    IF d = DIST_RAW \/ d = DIST_DISPLAY THEN <<"Mumbai", "District">> ELSE d

\* Mutant: the district is always mapped from chrdistrict.
S3District_NeverEnglish(result) ==
    s3_map_district(result.chrdistrict)

\* district = district_english.replace(" ", "_") if district_english
\*            else map_district(district_raw)
S3District(result) ==
    IF result.chrdistrictenglish # NULL /\ result.chrdistrictenglish # <<"">>
    THEN Underscore(result.chrdistrictenglish)
    ELSE s3_map_district(result.chrdistrict)

\* s3_base_path of line 207, from the row of tblongoingdocno.
S3BasePath(result, do_id, folder_name) ==
    << S3_ROOT, S3District(result), Underscore(result.chrsro),
       <<result.chryear>>, <<do_id>>, folder_name >>

\* The os.walk loop: (local_file_path, s3_file_path) for every file, the
\* local file given by its path relative to the folder.
FilesToTransfer(s3_base_path, files) ==
    [ k \in 1..Len(files) |->
        [local_file |-> files[k], s3_destination |-> s3_base_path \o files[k]] ]

\* os.path.dirname(path) + "/"
Dirname(path) ==
    SubSeq(path, 1, Len(path) - 1)

\* "s3cmd ls <s3_base_path>" exiting with 0: one line per object directly
\* under the path and one DIR line per prefix below it (a path with a
\* trailing slash, here an empty last component); the regular expression
\* takes the last field of each line.
S3Ls(remote, s3_base_path) ==
    LET n == Len(s3_base_path)
        under == { k \in remote : Len(k) > n /\ SubSeq(k, 1, n) = s3_base_path }
    IN  { k \in under : Len(k) = n + 1 }
          \cup { SubSeq(k, 1, n + 1) \o << <<"">> >> : k \in { u \in under : Len(u) > n + 1 } }

\* list_s3_files: the listing, or the empty set when s3cmd fails.
list_s3_files(remote, s3_base_path, returncode) ==
    IF returncode = 0 THEN S3Ls(remote, s3_base_path) ELSE {}

\* Mutant: a failed file is checked against the listing as well.
VerificationFailures_AllFiles(files_to_transfer, failed_files, s3_files) ==
    SelectSeq([ k \in 1..Len(files_to_transfer) |-> files_to_transfer[k].s3_destination ],
              LAMBDA key : key \notin s3_files)

\* The verification loop of lines 244-251, in the order of files_to_transfer.
VerificationFailures(files_to_transfer, failed_files, s3_files) ==
    LET checked == SelectSeq(files_to_transfer,
                     LAMBDA f : \A j \in DOMAIN failed_files :
                                   failed_files[j] # f.local_file)
        missing == SelectSeq(checked, LAMBDA f : f.s3_destination \notin s3_files)
    IN  [ k \in 1..Len(missing) |-> missing[k].s3_destination ]

\* Mutant: the listing is not consulted for the result.
TransferSuccess_CountOnly(successful_transfers, total_files, verification_failures) ==
    successful_transfers = total_files

\* The condition of line 254.
TransferSuccess(successful_transfers, total_files, verification_failures) ==
    successful_transfers = total_files /\ Len(verification_failures) = 0

\* Mutant: the delay is taken after every failed attempt.
SleepBeforeRetry_Always(attempt) ==
    TRUE

\* if attempt < max_retries: time.sleep(2)
SleepBeforeRetry(attempt) ==
    attempt < max_retries

\* The locals when transfer_folder_to_s3 reaches its upload loop.
UploadLocals(s3_base_path, files_to_transfer) ==
    [ s3_base_path |-> s3_base_path,
      files_to_transfer |-> files_to_transfer,
      fi |-> 1,                \* position of the upload loop
      attempt |-> 1,           \* transfer_file_to_s3: attempt
      outcomes |-> <<>>,       \* what the attempts of this call gave so far
      sleeps |-> 0,            \* time.sleep calls of this call
      successful_transfers |-> 0,
      failed_files |-> <<>>,
      file_log |-> <<>> ]      \* per file: the call's attempts and result

\* Mutant: the upload loop stops at the first file that fails.
AfterFile_Break(loc, ok, zero) ==
    [ loc EXCEPT
        !.fi = IF ok THEN @ + 1 ELSE Len(loc.files_to_transfer) + 1,
        !.attempt = 1,
        !.outcomes = <<>>,
        !.sleeps = 0,
        !.successful_transfers = IF ok THEN @ + 1 ELSE @,
        !.failed_files = IF ok THEN @
                         ELSE Append(@, loc.files_to_transfer[loc.fi].local_file),
        !.file_log = Append(@, [ attempts |-> loc.attempt, sleeps |-> loc.sleeps,
                                 ok |-> ok, zero |-> zero ]) ]

\* Lines 234-238 once transfer_file_to_s3 has returned ok for file fi (zero:
\* whether an attempt of the call returned status 0).
AfterFile(loc, ok, zero) ==
    [ loc EXCEPT
        !.fi = @ + 1,
        !.attempt = 1,
        !.outcomes = <<>>,
        !.sleeps = 0,
        !.successful_transfers = IF ok THEN @ + 1 ELSE @,
        !.failed_files = IF ok THEN @
                         ELSE Append(@, loc.files_to_transfer[loc.fi].local_file),
        !.file_log = Append(@, [ attempts |-> loc.attempt, sleeps |-> loc.sleeps,
                                 ok |-> ok, zero |-> zero ]) ]

\* The rows of tblongoingdocno the transfer may find: as the registrar
\* inserts them (no chrdistrictenglish), with an English district beside a
\* district the map does not hold, and with an empty English district.
ROW_REGISTRAR ==
    [ chrdistrict |-> DIST_DISPLAY, chrdistrictenglish |-> NULL,
      chrsro |-> SRO1_DISPLAY, chryear |-> "2009" ]

ROW_ENGLISH ==
    [ chrdistrict |-> <<"Thane">>, chrdistrictenglish |-> <<"Mumbai District">>,
      chrsro |-> SRO2_DISPLAY, chryear |-> "2010" ]

ROW_UNMAPPED ==
    [ chrdistrict |-> <<"Thane">>, chrdistrictenglish |-> <<"">>,
      chrsro |-> SRO3_DISPLAY, chryear |-> "2009" ]

WithId(id, row) ==
    row @@ [intongoingid |-> id]

\* db_conn (None or a connection) and the table behind it.
TransferDbs ==
    { [conn |-> FALSE, rows |-> {}],
      [conn |-> TRUE, rows |-> {}],
      [conn |-> TRUE, rows |-> {WithId(1, ROW_REGISTRAR), WithId(2, ROW_ENGLISH)}],
      [conn |-> TRUE, rows |-> {WithId(1, ROW_ENGLISH), WithId(2, ROW_UNMAPPED)}],
      [conn |-> TRUE, rows |-> {WithId(1, ROW_UNMAPPED)}] }

\* Entries of the do_id directories: folders with one file, with a file and
\* a nested file, with a nested file only, without files, a folder that is
\* gone when its transfer starts, and a plain file.
TransferEntries ==
    { [ do_id |-> "1", name |-> <<"Regular", "1">>, isdir |-> TRUE, exists |-> TRUE,
        files |-> << << <<"Regular", "1.html">> >> >> ],
      [ do_id |-> "1", name |-> <<"iSarita", "2.0", "2">>, isdir |-> TRUE, exists |-> TRUE,
        files |-> << << <<"iSarita", "2.0", "2.html">> >>,
                     << <<"img">>, <<"page", "1.png">> >> >> ],
      [ do_id |-> "2", name |-> <<"eRegistration", "4">>, isdir |-> TRUE, exists |-> TRUE,
        files |-> << << <<"docs">>, <<"eRegistration", "4.pdf">> >> >> ],
      [ do_id |-> "2", name |-> <<"Regular", "3">>, isdir |-> TRUE, exists |-> TRUE,
        files |-> <<>> ],
      [ do_id |-> "2", name |-> <<"Regular", "5">>, isdir |-> TRUE, exists |-> FALSE,
        files |-> <<>> ],
      [ do_id |-> "1", name |-> <<"notes.txt">>, isdir |-> FALSE, exists |-> TRUE,
        files |-> <<>> ] }

\* Mutant: without a persisted row the metadata is recomputed locally.
QueryMetadata_Fallback(db, do_id) ==
    IF int_raises(do_id) THEN {}
    ELSE IF \E r \in db.rows : r.intongoingid = int(do_id)
         THEN { r \in db.rows : r.intongoingid = int(do_id) }
         ELSE { WithId(int(do_id), ROW_REGISTRAR) }

\* SELECT .. FROM tblongoingdocno WHERE intongoingid = do_id LIMIT 1: the
\* rows fetchone() may return (a do_id that is no integer matches none).
QueryMetadata(db, do_id) ==
    IF int_raises(do_id) THEN {}
    ELSE { r \in db.rows : r.intongoingid = int(do_id) }

\* main(): the do_id directories in ascending order of int(do_id), the
\* entries of one directory in any order.
TransferLayouts ==
    UNION { { l \in [1..n -> TransferEntries] :
                \A i, j \in 1..n :
                  i < j => /\ l[i] # l[j]
                           /\ int(l[i].do_id) <= int(l[j].do_id) } :
            n \in 0..MaxFolders }

InitTransfer ==
    /\ RegInit
    /\ LedgerIdle
    /\ BatcherIdle
    /\ ParserIdle
    /\ ScanIdle
    /\ CopyIdle
    /\ ExtIdle
    /\ tf_layout \in TransferLayouts
    /\ tf_db \in TransferDbs
    /\ tf_remote = {}
    /\ tf_pc = "main"
    /\ tf_i = 1
    /\ tf_loc = <<>>
    /\ tf_results = <<>>

TfEntry == tf_layout[tf_i]

\* The tuple transfer_folder_to_s3 returns, by the names of its docstring.
Returned(success, s3_base_path, s3_html_file_path) ==
    [ success |-> success,
      s3_base_path |-> s3_base_path,
      s3_html_file_path |-> s3_html_file_path ]

\* What is recorded when transfer_folder_to_s3 returns: the returned tuple
\* and, as the function logged them, the locals it held.
TfResult(returned, loc, listed, s3_files, verification_failures) ==
    [ i |-> tf_i,
      returned |-> returned,
      uploaded |-> loc # <<>>,
      files_to_transfer |-> IF loc = <<>> THEN <<>> ELSE loc.files_to_transfer,
      successful_transfers |-> IF loc = <<>> THEN 0 ELSE loc.successful_transfers,
      failed_files |-> IF loc = <<>> THEN <<>> ELSE loc.failed_files,
      file_log |-> IF loc = <<>> THEN <<>> ELSE loc.file_log,
      listed |-> listed,
      s3_files |-> s3_files,
      verification_failures |-> verification_failures ]

\* transfer_folder_to_s3 returns to the loop of main(), which logs and goes
\* to the next entry.
TfReturn(result) ==
    /\ tf_results' = Append(tf_results, result)
    /\ tf_i' = tf_i + 1
    /\ tf_pc' = "main"
    /\ tf_loc' = <<>>

\* main(): an entry of the do_id directory that is not a directory.
TfSkipEntry ==
    /\ tf_pc = "main"
    /\ tf_i <= Len(tf_layout)
    /\ ~TfEntry.isdir
    /\ tf_i' = tf_i + 1
    /\ UNCHANGED << reg_vars, lg_vars, bt_vars, ps_vars, sc_vars, cp_vars, ext_vars, tf_layout,
                    tf_db, tf_remote, tf_pc, tf_loc, tf_results >>

\* main() calls transfer_folder_to_s3, lines 170-228: the metadata query,
\* the base path, the walk.  The call returns (False, None, None) without a
\* connection, without a row, when the query raises, or when the folder is
\* gone; otherwise the upload loop starts.
TfStartFolder ==
    /\ tf_pc = "main"
    /\ tf_i <= Len(tf_layout)
    /\ TfEntry.isdir
    /\ LET found == QueryMetadata(tf_db, TfEntry.do_id)
           none == TfResult(Returned(FALSE, NULL, NULL), <<>>, FALSE, {}, <<>>)
       IN  \/ /\ ~tf_db.conn \/ found = {} \/ ~TfEntry.exists
              /\ TfReturn(none)
           \/ /\ tf_db.conn
              /\ TfReturn(none)        \* cursor() or execute() raises
           \/ /\ tf_db.conn
              /\ TfEntry.exists
              /\ \E result \in found :
                   LET s3_base_path == S3BasePath(result, TfEntry.do_id, TfEntry.name)
                   IN  tf_loc' = UploadLocals(s3_base_path,
                                   FilesToTransfer(s3_base_path, TfEntry.files))
              /\ tf_pc' = "upload"
              /\ UNCHANGED << tf_i, tf_results >>
    /\ UNCHANGED << reg_vars, lg_vars, bt_vars, ps_vars, sc_vars, cp_vars, ext_vars, tf_layout,
                    tf_db, tf_remote >>

\* One iteration of the retry loop of transfer_file_to_s3 for file fi:
\* "s3cmd put" returns 0 (the store then holds the key, or does not list it
\* later), returns another status, or subprocess.run raises.  On status 0
\* the call returns True; otherwise it sleeps if attempts are left and goes
\* on, and returns False after the last attempt.
TfUploadAttempt ==
    /\ tf_pc = "upload"
    /\ tf_loc.fi <= Len(tf_loc.files_to_transfer)
    /\ tf_loc.attempt <= max_retries
    /\ \E outcome \in {"zero", "zero_unlisted", "nonzero", "raise"} :
         IF outcome \in {"zero", "zero_unlisted"}
         THEN /\ tf_remote' = IF outcome = "zero"
                              THEN tf_remote \cup
                                     {tf_loc.files_to_transfer[tf_loc.fi].s3_destination}
                              ELSE tf_remote
              /\ tf_loc' = AfterFile(tf_loc, TRUE, TRUE)
         ELSE /\ tf_remote' = tf_remote
              /\ LET slept == [ tf_loc EXCEPT
                                  !.outcomes = Append(@, outcome),
                                  !.sleeps = IF SleepBeforeRetry(tf_loc.attempt)
                                             THEN @ + 1 ELSE @ ]
                 IN  IF tf_loc.attempt + 1 <= max_retries
                     THEN tf_loc' = [slept EXCEPT !.attempt = @ + 1]
                     ELSE tf_loc' = AfterFile(slept, FALSE, FALSE)
    /\ UNCHANGED << reg_vars, lg_vars, bt_vars, ps_vars, sc_vars, cp_vars, ext_vars, tf_layout,
                    tf_db, tf_pc, tf_i, tf_results >>

\* Lines 240-266 after the upload loop: the listing of the directory of the
\* first key, the verification loop, the result.  files_to_transfer[0] of a
\* folder without files raises IndexError, which the except clause turns
\* into (False, None, None).
TfVerify ==
    /\ tf_pc = "upload"
    /\ tf_loc.fi > Len(tf_loc.files_to_transfer)
    /\ IF Len(tf_loc.files_to_transfer) = 0
       THEN TfReturn(TfResult(Returned(FALSE, NULL, NULL), tf_loc, FALSE, {}, <<>>))
       ELSE \E returncode \in {0, 1} :
              LET s3_base_path == Dirname(tf_loc.files_to_transfer[1].s3_destination)
                  s3_files == list_s3_files(tf_remote, s3_base_path, returncode)
                  verification_failures ==
                      VerificationFailures(tf_loc.files_to_transfer,
                                           tf_loc.failed_files, s3_files)
                  success == TransferSuccess(tf_loc.successful_transfers,
                                             Len(tf_loc.files_to_transfer),
                                             verification_failures)
              IN  TfReturn(TfResult(Returned(success, s3_base_path, NULL), tf_loc,
                                    TRUE, s3_files, verification_failures))
    /\ UNCHANGED << reg_vars, lg_vars, bt_vars, ps_vars, sc_vars, cp_vars, ext_vars, tf_layout,
                    tf_db, tf_remote >>

\* main() after the loops: db_conn.close().
TfFinish ==
    /\ tf_pc = "main"
    /\ tf_i > Len(tf_layout)
    /\ tf_pc' = "done"
    /\ UNCHANGED << reg_vars, lg_vars, bt_vars, ps_vars, sc_vars, cp_vars, ext_vars, tf_layout,
                    tf_db, tf_remote, tf_i, tf_loc, tf_results >>

NextTransfer ==
    \/ TfSkipEntry
    \/ TfStartFolder
    \/ TfUploadAttempt
    \/ TfVerify
    \/ TfFinish

SpecTransfer == InitTransfer /\ [][NextTransfer]_vars

\* s3cmd returns and the interpreter goes on: every step that can be taken
\* is taken.
FairSpecTransfer == SpecTransfer /\ WF_vars(NextTransfer)

\* --------------------------------------------------------- transfer claims
\* The results recorded so far, and the keys of a result by file position.
TfDone == { k \in DOMAIN tf_results : tf_results[k].uploaded }

KeyOf(r, k) == r.files_to_transfer[k].s3_destination

\* C14: a folder's transfer returns success only if every file found under
\* the folder was uploaded with status 0 (successful_transfers equals the
\* number of files) and every uploaded key is in the listing taken after the
\* uploads (no verification failure); one file whose retries are exhausted,
\* or one key the listing lacks, makes the result a failure.
C14_SuccessSound ==
    \A x \in DOMAIN tf_results :
      LET r == tf_results[x]
          n == Len(r.files_to_transfer)
      IN  /\ r.returned.success =>
                /\ r.uploaded
                /\ r.listed
                /\ r.successful_transfers = n
                /\ Len(r.file_log) = n
                /\ \A k \in 1..n : r.file_log[k].ok /\ KeyOf(r, k) \in r.s3_files
                /\ r.verification_failures = <<>>
          /\ (\E k \in DOMAIN r.file_log : ~r.file_log[k].ok) =>
                ~r.returned.success
          /\ (\E k \in DOMAIN r.file_log : KeyOf(r, k) \notin r.s3_files) =>
                ~r.returned.success

\* A folder all of whose uploads returned status 0 was reported failed for a
\* key the listing lacks, and another folder was reported successful.
C14_Witness ==
    /\ \E x \in TfDone :
         /\ ~tf_results[x].returned.success
         /\ tf_results[x].successful_transfers = Len(tf_results[x].files_to_transfer)
         /\ tf_results[x].listed
         /\ tf_results[x].s3_files # {}
    /\ \E x \in TfDone : tf_results[x].returned.success

\* C15: whenever a folder's transfer ends, the returned value holds the local
\* files whose upload failed and the keys that could not be verified.
C15_FailureDetailReturned ==
    \A x \in TfDone :
      LET r == tf_results[x]
      IN  /\ {"failed_files", "verification_failures"} \subseteq DOMAIN r.returned
          /\ r.returned.failed_files = r.failed_files
          /\ r.returned.verification_failures = r.verification_failures

\* The file logs of the folder in progress and of the folders done.
FileLogs ==
    { r.file_log : r \in { tf_results[x] : x \in DOMAIN tf_results } }
      \cup (IF tf_pc = "upload" THEN {tf_loc.file_log} ELSE {})

\* The call of transfer_file_to_s3 for file k of entry i has not returned.
Uploading(i, k) ==
    /\ tf_pc = "upload"
    /\ tf_i = i
    /\ tf_loc.fi = k
    /\ k <= Len(tf_loc.files_to_transfer)

\* What C16 says of every state: inside a call the attempts made so far all
\* failed (a status 0 ends the call), there were at most two of them and one
\* delay after each; a call that returned made 1..3 attempts with a delay
\* between two attempts only, returned True iff an attempt gave status 0, and
\* returned False only after the third attempt.
C16_Bounds ==
    /\ max_retries = 3
    /\ tf_pc = "upload" /\ tf_loc.fi <= Len(tf_loc.files_to_transfer) =>
         /\ tf_loc.attempt \in 1..3
         /\ Len(tf_loc.outcomes) = tf_loc.attempt - 1
         /\ \A a \in DOMAIN tf_loc.outcomes : tf_loc.outcomes[a] \in {"nonzero", "raise"}
         /\ tf_loc.sleeps = tf_loc.attempt - 1
    /\ \A log \in FileLogs :
         \A k \in DOMAIN log :
           /\ log[k].attempts \in 1..3
           /\ log[k].sleeps = log[k].attempts - 1
           /\ log[k].ok <=> log[k].zero
           /\ ~log[k].ok => log[k].attempts = 3

\* C16: uploading one file makes at least 1 and at most 3 attempts, stops at
\* the first attempt that returns status 0, retries after any other status
\* or an exception, waits only between attempts, returns success iff an
\* attempt returned status 0, and every call returns.
C16_BoundedRetry ==
    /\ []C16_Bounds
    /\ \A i \in 1..MaxFolders :
         \A k \in 1..2 :
           Uploading(i, k) ~> ~Uploading(i, k)

\* One file went up at the third attempt and another failed all three.
C16_Witness ==
    \E log \in FileLogs :
      \E j, k \in DOMAIN log :
        /\ log[j].ok /\ log[j].attempts = 3
        /\ ~log[k].ok

\* C17: the listing is taken only when every file of the folder has had its
\* upload attempted, and the verification failures are exactly the keys
\* whose upload returned True and which the listing lacks; the key of a file
\* whose upload failed is never among them.
C17_VerificationSet ==
    \A x \in DOMAIN tf_results :
      LET r == tf_results[x]
          n == Len(r.files_to_transfer)
          vf == { r.verification_failures[j] : j \in DOMAIN r.verification_failures }
      IN  /\ r.listed => Len(r.file_log) = n
          /\ ~r.listed => /\ r.verification_failures = <<>>
                          /\ r.s3_files = {}
          /\ r.listed =>
               vf = { KeyOf(r, k) : k \in { q \in 1..n : /\ r.file_log[q].ok
                                                         /\ KeyOf(r, q) \notin r.s3_files } }
          /\ Len(r.verification_failures) = Cardinality(vf)
          /\ \A k \in DOMAIN r.file_log :
               ~r.file_log[k].ok =>
                 /\ KeyOf(r, k) \notin vf
                 /\ \E j \in DOMAIN r.failed_files :
                      r.failed_files[j] = r.files_to_transfer[k].local_file

\* A folder of two files was verified: the upload of one failed, the other
\* went up and is not in the listing.
C17_Witness ==
    \E x \in TfDone :
      LET r == tf_results[x]
      IN  /\ r.listed
          /\ Len(r.files_to_transfer) = 2
          /\ Len(r.failed_files) = 1
          /\ Len(r.verification_failures) = 1

\* What C18 says of every state: a transfer that reached its upload loop
\* logged an attempt for every file of the folder, also after a failed one;
\* the entries main() has passed are the ones with a result, in order; and a
\* folder's result is success exactly when its own files all went up and are
\* all listed, whatever the results of the folders before it.
C18_Isolated ==
    /\ \A x \in TfDone :
         Len(tf_results[x].file_log) = Len(tf_results[x].files_to_transfer)
    /\ tf_pc \in {"main", "done"} =>
         /\ { tf_results[x].i : x \in DOMAIN tf_results } =
              { i \in 1..(tf_i - 1) : tf_layout[i].isdir }
         /\ \A x, y \in DOMAIN tf_results :
              x < y => tf_results[x].i < tf_results[y].i
    /\ \A x \in DOMAIN tf_results :
         LET r == tf_results[x]
             n == Len(r.files_to_transfer)
         IN  r.returned.success <=>
               /\ r.listed
               /\ \A k \in 1..n : r.file_log[k].ok /\ KeyOf(r, k) \in r.s3_files
    /\ tf_pc = "done" => tf_i = Len(tf_layout) + 1

\* C18: a file whose upload fails does not stop the uploads of the other
\* files of its folder, a folder whose transfer fails does not stop the
\* loop of main(): every folder of every do_id directory is eventually
\* attempted, and only the failing folder's result is failure.
C18_FailuresIsolated ==
    /\ []C18_Isolated
    /\ <>(tf_pc = "done")

\* The run is over: the first file of the first folder failed, its second
\* file went up, the first folder was reported failed and the next folder
\* successful.
C18_Witness ==
    /\ tf_pc = "done"
    /\ Len(tf_results) = 2
    /\ ~tf_results[1].returned.success
    /\ Len(tf_results[1].file_log) = 2
    /\ ~tf_results[1].file_log[1].ok
    /\ tf_results[1].file_log[2].ok
    /\ tf_results[2].returned.success

\* The path components the key of a folder must start with, row by row: the
\* English district where the row has one (else the mapped district), SRO
\* and year of the persisted row, spaces written as underscores.
C19_ExpectedPrefix(row) ==
    LET sro == CASE row.chrsro = SRO1_DISPLAY -> SRO1_RAW
                 [] row.chrsro = SRO2_DISPLAY -> SRO2_RAW
                 [] row.chrsro = SRO3_DISPLAY -> SRO3_RAW
        district == IF row.chrdistrictenglish = <<"Mumbai District">>
                    THEN <<"Mumbai", "District">>
                    ELSE IF row.chrdistrict = <<"Thane">>
                    THEN <<"Thane">>
                    ELSE <<"Mumbai", "District">>
    IN  << district, sro, <<row.chryear>> >>

\* The folders whose files have keys: the one in progress and the ones done.
KeyedFolders ==
    { [i |-> tf_results[x].i, files_to_transfer |-> tf_results[x].files_to_transfer] :
        x \in TfDone }
      \cup (IF tf_pc = "upload"
            THEN {[i |-> tf_i, files_to_transfer |-> tf_loc.files_to_transfer]}
            ELSE {})

\* C19: every key of a folder is prefix/district/sro/year/do_id/folder_name
\* followed by the file's path relative to the folder, district, sro and
\* year being those of the persisted row of do_id, and every key the store
\* holds is such a key.
C19_KeyDerivation ==
    /\ \A f \in KeyedFolders :
         LET e == tf_layout[f.i]
         IN  /\ Len(f.files_to_transfer) = Len(e.files)
             /\ \E row \in tf_db.rows :
                  /\ row.intongoingid = IntTable[e.do_id]
                  /\ \A k \in DOMAIN f.files_to_transfer :
                       f.files_to_transfer[k].s3_destination =
                         << <<"s3://calyso/marshaltestrealestate">> >>
                           \o C19_ExpectedPrefix(row)
                           \o << <<e.do_id>>, e.name >>
                           \o e.files[k]
    /\ \A key \in tf_remote :
         \E f \in KeyedFolders :
           \E k \in DOMAIN f.files_to_transfer :
             f.files_to_transfer[k].s3_destination = key

\* A nested file of a folder whose row has an English district beside an
\* unmapped district has been uploaded.
C19_Witness ==
    \E key \in tf_remote :
      /\ Len(key) = 8
      /\ key[2] = <<"Mumbai", "District">>
      /\ key[3] = SRO2_RAW
      /\ key[4] = <<"2010">>

\* C23: a folder transferred without a database connection, or with no row
\* of tblongoingdocno for its do_id, returns (False, None, None), made no
\* upload attempt and no listing, and the upload loop never runs for it.
C23_NoMetadataNoUpload ==
    LET NoMetadata(e) ==
            \/ ~tf_db.conn
            \/ \A row \in tf_db.rows : str(row.intongoingid) # e.do_id
    IN  /\ \A k \in DOMAIN tf_results :
               NoMetadata(tf_layout[tf_results[k].i]) =>
                   /\ ~tf_results[k].returned.success
                   /\ tf_results[k].returned.s3_base_path = NULL
                   /\ ~tf_results[k].uploaded
                   /\ tf_results[k].file_log = <<>>
                   /\ tf_results[k].successful_transfers = 0
                   /\ ~tf_results[k].listed
        /\ tf_pc = "upload" => ~NoMetadata(TfEntry)

\* A folder with files whose do_id has no row, while the table has rows of
\* other do_ids and a folder before it was uploaded.
C23_Witness ==
    \E k \in DOMAIN tf_results :
        LET e == tf_layout[tf_results[k].i]
        IN  /\ tf_db.conn
            /\ tf_db.rows # {}
            /\ \A row \in tf_db.rows : str(row.intongoingid) # e.do_id
            /\ e.exists
            /\ e.files # <<>>
            /\ ~tf_results[k].uploaded
            /\ \E j \in 1..(k - 1) : tf_results[j].uploaded

\* C28: a folder that exists and whose do_id has a row, whose every upload
\* returned status 0 at the first attempt, whose keys the store holds and
\* whose listing (if one was made) succeeded, is reported successful with
\* the base path derived from the row, whatever files it has.
C28_SuccessComplete ==
    \A x \in DOMAIN tf_results :
        LET r == tf_results[x]
            e == tf_layout[r.i]
            rows == { row \in tf_db.rows : str(row.intongoingid) = e.do_id }
        IN  ( /\ tf_db.conn
              /\ rows # {}
              /\ e.exists
              /\ r.uploaded
              /\ Len(r.file_log) = Len(e.files)
              /\ \A k \in DOMAIN r.file_log :
                     /\ r.file_log[k].ok
                     /\ r.file_log[k].attempts = 1
                     /\ KeyOf(r, k) \in tf_remote
              /\ r.listed =>
                     r.s3_files = S3Ls(tf_remote, Dirname(KeyOf(r, 1))) )
            => /\ r.returned.success
               /\ \E row \in rows :
                      r.returned.s3_base_path = S3BasePath(row, e.do_id, e.name)

\* ------------------------------------------------------------ step 4 alone
\* The folders step 4 is run on: one of each registration type, one whose
\* number is written with a leading zero.
CopyNames ==
    { <<"Regular">> \o DIST_RAW \o SRO1_RAW \o <<"2009", "1">>,
      <<"eRegistration">> \o DIST_RAW \o SRO1_RAW \o <<"2009", "4">>,
      ISARITA_REG \o DIST_RAW \o SRO1_RAW \o <<"2009", "2">>,
      ISARITA_REG \o DIST_RAW \o SRO3_RAW \o <<"2010", "01">> }

\* The files a source folder may hold: directly inside it a file named after
\* the folder with a suffix, one with the folder's very name, one with
\* another name; in a subdirectory one named after the folder and one not.
CopyFiles(original_name) ==
    { [dir |-> <<>>, stem |-> original_name, suffix |-> ".html"],
      [dir |-> <<>>, stem |-> original_name, suffix |-> ""],
      [dir |-> <<>>, stem |-> <<"notes">>, suffix |-> ".txt"],
      [dir |-> <<"img">>, stem |-> original_name, suffix |-> ".png"],
      [dir |-> <<"img">>, stem |-> <<"scan">>, suffix |-> ".png"] }

\* The item as the batching loop left it (sub_dir_id is the local sequence
\* number of its batch), its files, the intongoingid of the batch, and
\* whether dp exists already (from an earlier run).
InitCopy ==
    /\ RegInit
    /\ LedgerIdle
    /\ BatcherIdle
    /\ ParserIdle
    /\ ScanIdle
    /\ TransferIdle
    /\ ExtIdle
    /\ \E name \in CopyNames :
         \E files \in SUBSET CopyFiles(name) :
           \E id \in {1, 3} :
             \E sub_dir_id \in {1, 2} :
               \E before \in SUBSET {<<id, NewFolderName(parse_folder_name(name))>>} :
                 /\ cp_in = [ item |-> parse_folder_name(name) @@
                                         [sub_dir_id |-> sub_dir_id],
                              files |-> files,
                              intongoingid |-> id ]
                 /\ cp_dest = [dp \in before |-> {}]
    /\ cp_done = FALSE

\* The body of the loop of step 4 for the item.
CopyOne ==
    /\ ~cp_done
    /\ cp_dest' = CopyFolder(cp_dest,
                             <<cp_in.intongoingid, NewFolderName(cp_in.item)>>,
                             cp_in.files, cp_in.item)
    /\ cp_done' = TRUE
    /\ UNCHANGED << reg_vars, lg_vars, bt_vars, ps_vars, sc_vars, tf_vars, ext_vars,
                    cp_in >>

SpecCopy == InitCopy /\ [][CopyOne]_vars

\* The destination path of the item: {intongoingid}/{reg_type}_{doc_no}.
C20_Dp ==
    << cp_in.intongoingid,
       cp_in.item.reg_type \o <<CHOOSE t \in {"1", "2", "4"} :
                                   IntTable[t] = cp_in.item.doc_no>> >>

\* C20: the document is copied to {durable_id}/{registration_type}_{number},
\* the durable id and not the local sequence number; in the copy a file is
\* renamed iff its name starts with the original folder name, to
\* {registration_type}_{number} followed by the unchanged suffix, and every
\* other file keeps its name.
C20_RelocateRename ==
    cp_done =>
        /\ DOMAIN cp_dest = {C20_Dp}
        /\ (\A f \in cp_in.files : f \notin cp_dest[C20_Dp] => f.stem = cp_in.item.original_name)
             \/ cp_dest[C20_Dp] = {}
        /\ cp_dest[C20_Dp] # {} \/ cp_in.files = {} =>
             cp_dest[C20_Dp] =
               { IF f.stem = cp_in.item.original_name
                 THEN [ dir |-> f.dir,
                        stem |-> C20_Dp[2],
                        suffix |-> f.suffix ]
                 ELSE f : f \in cp_in.files }

\* ------------------------------------------------- verify_batches alone
\* restructure_data.verify_batches is imported by test_logic.py but is not
\* part of the sources; it is modelled from the specification's example and
\* from the call and expected result of test_verify_batches.

\* Longest list of processed documents handed to verify_batches.
MaxReport == 3

\* The batch ids the processed documents carry.
ReportIds == 1..3

\* The data of TestRestructureLogic.test_verify_batches.
TEST_VERIFY_DATA ==
    << [sub_dir_id |-> 1, reg_type |-> <<"Regular">>],
       [sub_dir_id |-> 1, reg_type |-> <<"eRegistration">>],
       [sub_dir_id |-> 2, reg_type |-> <<"eRegistration">>],
       [sub_dir_id |-> 3, reg_type |-> ISARITA_REG],
       [sub_dir_id |-> 3, reg_type |-> <<"Regular">>] >>

\* The registration types seen per batch id, built row by row.
RECURSIVE BatchTypes(_, _, _)
BatchTypes(data, i, acc) ==
    IF i > Len(data) THEN acc
    ELSE LET b == data[i].sub_dir_id
             seen == IF b \in DOMAIN acc THEN acc[b] ELSE {}
         IN  BatchTypes(data, i + 1,
                        [x \in DOMAIN acc \cup {b} |->
                            IF x = b THEN seen \cup {data[i].reg_type} ELSE acc[x]])

\* sorted(ids)
RECURSIVE SortedIds(_)
SortedIds(ids) ==
    IF ids = {} THEN <<>>
    ELSE LET lo == CHOOSE x \in ids : \A y \in ids : x <= y
         IN  <<lo>> \o SortedIds(ids \ {lo})

\* Mutant: a batch is only-eRegistration as soon as one document is.
verify_batches_AnyEreg(data) ==
    LET types == BatchTypes(data, 1, <<>>)
    IN  [ only_ereg |-> SortedIds({b \in DOMAIN types : <<"eRegistration">> \in types[b]}),
          isarita |-> SortedIds({b \in DOMAIN types : ISARITA_REG \in types[b]}) ]

\* verify_batches(data): (only_ereg, isarita)
verify_batches(data) ==
    LET types == BatchTypes(data, 1, <<>>)
    IN  [ only_ereg |-> SortedIds({b \in DOMAIN types : types[b] = {<<"eRegistration">>}}),
          isarita |-> SortedIds({b \in DOMAIN types : ISARITA_REG \in types[b]}) ]

VerifyInputs ==
    {TEST_VERIFY_DATA} \cup
    UNION { [1..n -> [sub_dir_id : ReportIds, reg_type : RegTypes]] : n \in 0..MaxReport }

InitVerify ==
    /\ RegInit
    /\ LedgerIdle
    /\ BatcherIdle
    /\ ParserIdle
    /\ ScanIdle
    /\ TransferIdle
    /\ CopyIdle
    /\ ConcurrentIdle
    /\ vb_in \in VerifyInputs
    /\ vb_out = <<>>
    /\ vb_done = FALSE

VerifyReport ==
    /\ ~vb_done
    /\ vb_out' = verify_batches(vb_in)
    /\ vb_done' = TRUE
    /\ UNCHANGED << reg_vars, lg_vars, bt_vars, ps_vars, sc_vars, tf_vars, cp_vars,
                    cc_vars, vb_in >>

SpecVerify == InitVerify /\ [][VerifyReport]_vars

\* The documents of the data that belong to batch b.
PresentDocs(b) == {k \in DOMAIN vb_in : vb_in[k].sub_dir_id = b}

Listed(list, b) == \E k \in DOMAIN list : list[k] = b

\* C22: a batch of the processed documents is in the only-eRegistration
\* list exactly when every document of it has type eRegistration, and in
\* the iSarita list exactly when one of its documents has the iSarita 2.0
\* type; both lists hold batch ids of the data only, in ascending order.
C22_VerificationReport ==
    vb_done =>
        /\ \A b \in ReportIds :
               /\ Listed(vb_out.only_ereg, b) <=>
                      /\ PresentDocs(b) # {}
                      /\ \A k \in PresentDocs(b) :
                             vb_in[k].reg_type = <<"eRegistration">>
               /\ Listed(vb_out.isarita, b) <=>
                      \E k \in PresentDocs(b) : vb_in[k].reg_type = ISARITA_REG
        /\ \A list \in {vb_out.only_ereg, vb_out.isarita} :
               /\ \A k \in DOMAIN list : list[k] \in ReportIds
               /\ \A k, l \in DOMAIN list : k < l => list[k] < list[l]

\* The report of the test data: batch 2 only-eRegistration, batch 3 iSarita.
C22_Witness ==
    /\ vb_done
    /\ vb_in = TEST_VERIFY_DATA
    /\ vb_out.only_ereg = <<2>>
    /\ vb_out.isarita = <<3>>

\* ------------------------------- two registrar processes on one database
\* Two runs of main() over the same SOURCE_DIR, each with its own
\* connection and transaction, on one database and one DEST_PARENT_DIR.
\* Every statement of a transaction sees the committed rows and the rows of
\* its own transaction (read committed); the tables declare no uniqueness.
Procs == {1, 2}

CcIdleProc ==
    [ pc |-> "idle", batches |-> <<>>, bid |-> 0, intongoingid |-> 0,
      is_new_parent |-> FALSE, tx_parents |-> {}, tx_records |-> <<>> ]

InitConcurrent ==
    /\ RegInit
    /\ LedgerIdle
    /\ BatcherIdle
    /\ ParserIdle
    /\ ScanIdle
    /\ TransferIdle
    /\ CopyIdle
    /\ VerifyIdle
    /\ cc_source \in (SUBSET SourceNames) \ {{}}
    /\ cc_proc = [p \in Procs |-> CcIdleProc]
    /\ cc_parents = {}
    /\ cc_records = <<>>
    /\ cc_seq = 0
    /\ cc_dest = <<>>
    /\ cc_overlap = FALSE

CcOthers ==
    << reg_vars, lg_vars, bt_vars, ps_vars, sc_vars, tf_vars, cp_vars, vb_vars >>

CcRunning(q) == cc_proc[q].pc \notin {"idle", "done"}

\* Step 4 for the items of a batch, from item i on.
RECURSIVE CopyItems(_, _, _, _, _)
CopyItems(dest_dir, id, items_map, order, i) ==
    IF i > Len(order) THEN dest_dir
    ELSE LET item == items_map[order[i]]
         IN  CopyItems(CopyFolder(dest_dir, <<id, NewFolderName(item)>>,
                                  SourceFiles(item.original_name), item),
                       id, items_map, order, i + 1)

\* main() of process p up to the batch loop.
CcStartRun(p) ==
    /\ cc_proc[p].pc = "idle"
    /\ \E items \in Listings(cc_source) :
         cc_proc' = [cc_proc EXCEPT ![p] =
                        [@ EXCEPT !.pc = "batch",
                                  !.batches = Batches(ParsedItems(items), BATCH_SIZE),
                                  !.bid = 1]]
    /\ cc_overlap' = (cc_overlap \/ \E q \in Procs \ {p} : CcRunning(q))
    /\ UNCHANGED << CcOthers, cc_source, cc_parents, cc_records, cc_seq, cc_dest >>

\* Steps 1 to 3 of process_batch_with_db in process p.
CcBeginBatch(p) ==
    /\ cc_proc[p].pc = "batch"
    /\ LET me == cc_proc[p]
           t == LookupTuple(me.batches[me.bid].meta)
           found == check_duplicate_ongoing(cc_parents \cup me.tx_parents,
                                            t[1], t[2], t[3], t[4], t[5])
       IN  IF found # {}
           THEN /\ \E existing_id \in found :
                     cc_proc' = [cc_proc EXCEPT ![p] =
                                    [@ EXCEPT !.pc = "copy",
                                              !.intongoingid = existing_id,
                                              !.is_new_parent = FALSE]]
                /\ UNCHANGED cc_seq
           ELSE /\ cc_seq' = cc_seq + 1
                /\ cc_proc' = [cc_proc EXCEPT ![p] =
                      [@ EXCEPT !.pc = "copy",
                                !.intongoingid = cc_seq + 1,
                                !.is_new_parent = TRUE,
                                !.tx_parents = @ \cup
                                    {insert_ongoing_docno(cc_seq + 1, t[1], t[2],
                                                          t[3], t[4], t[5])}]]
    /\ UNCHANGED << CcOthers, cc_source, cc_parents, cc_records, cc_dest, cc_overlap >>

\* Steps 4 and 5 in process p: the copies, then the ledger loop.
CcCopyInsert(p) ==
    /\ cc_proc[p].pc = "copy"
    /\ LET me == cc_proc[p]
           b == me.batches[me.bid]
           out == InsertLoop(BuildLedger(b.meta, b.items), 1, me.intongoingid,
                             me.is_new_parent, cc_records \o me.tx_records,
                             [inserted |-> <<>>, records_inserted |-> 0,
                              records_skipped |-> 0])
       IN  /\ cc_dest' = CopyItems(cc_dest, me.intongoingid, b.items, b.order, 1)
           /\ cc_proc' = [cc_proc EXCEPT ![p] =
                             [@ EXCEPT !.pc = "commit",
                                       !.tx_records = @ \o out.inserted]]
    /\ UNCHANGED << CcOthers, cc_source, cc_parents, cc_records, cc_seq, cc_overlap >>

\* The locals of the batch are gone; main() goes on or ends.
CcAfterBatch(me, success) ==
    [ pc |-> IF success /\ me.bid < Len(me.batches) THEN "batch" ELSE "done",
      batches |-> IF success /\ me.bid < Len(me.batches) THEN me.batches ELSE <<>>,
      bid |-> IF success /\ me.bid < Len(me.batches) THEN me.bid + 1 ELSE 0,
      intongoingid |-> 0,
      is_new_parent |-> FALSE,
      tx_parents |-> {},
      tx_records |-> <<>> ]

\* conn.commit() in process p.
CcCommit(p) ==
    /\ cc_proc[p].pc = "commit"
    /\ cc_parents' = cc_parents \cup cc_proc[p].tx_parents
    /\ cc_records' = cc_records \o cc_proc[p].tx_records
    /\ cc_proc' = [cc_proc EXCEPT ![p] = CcAfterBatch(@, TRUE)]
    /\ UNCHANGED << CcOthers, cc_source, cc_seq, cc_dest, cc_overlap >>

\* A statement of process p raises: rollback, failure, the loop breaks.
CcBatchRaises(p) ==
    /\ cc_proc[p].pc \in {"batch", "copy", "commit"}
    /\ cc_proc' = [cc_proc EXCEPT ![p] = CcAfterBatch(@, FALSE)]
    /\ UNCHANGED << CcOthers, cc_source, cc_parents, cc_records, cc_seq, cc_dest,
                    cc_overlap >>

NextConcurrent ==
    \/ \E p \in Procs : CcStartRun(p)
    \/ \E p \in Procs : CcBeginBatch(p)
    \/ \E p \in Procs : CcCopyInsert(p)
    \/ \E p \in Procs : CcCommit(p)
    \/ \E p \in Procs : CcBatchRaises(p)

SpecConcurrent == InitConcurrent /\ [][NextConcurrent]_vars

\* Two committed parents of one lookup tuple.
CcTwoParents ==
    \E p, q \in cc_parents : p # q /\ ParentTuple(p) = ParentTuple(q)

\* Two committed child rows of one document number of one office and year.
CcTwoRows ==
    \E a, b \in DOMAIN cc_records :
        /\ a # b
        /\ cc_records[a].chrdistrict = cc_records[b].chrdistrict
        /\ cc_records[a].chrsro = cc_records[b].chrsro
        /\ cc_records[a].chryear = cc_records[b].chryear
        /\ cc_records[a].intdocno = cc_records[b].intdocno

\* C24: as long as no run started while the other was running, the parents
\* of a lookup tuple and the child rows of a document number stay unique;
\* with overlapping runs they do not (the witness).
C24_SingleWriter ==
    ~cc_overlap => (~CcTwoParents /\ ~CcTwoRows)

\* Both runs looked the tuple up before either committed, both inserted a
\* parent and the rows of the range, both committed.
C24_Witness ==
    /\ cc_overlap
    /\ CcTwoParents
    /\ CcTwoRows
    /\ \A p \in Procs : cc_proc[p].pc = "done"

====
